---- MODULE Spec2Model ----
(***************************************************************************)
(* A model of the task execution engine of pocket/bld.                     *)
(*                                                                         *)
(* The repository holds several generations of the engine side by side.    *)
(* The module models them side by side, each under its own specification:  *)
(*                                                                         *)
(*   Spec / SpecSeq   the registry-based Task.Run (funcdef.go, "execution" *)
(*                    with markDone / isDone), with concurrent callers     *)
(*                    (Spec) or a single caller (SpecSeq);                 *)
(*   SpecDeps         the sync.Once based Task.run with Deps (errgroup)    *)
(*                    and SerialDeps;                                      *)
(*   SpecCollect      FuncDef.run and the leaf Runnables with the          *)
(*                    collect / execute mode.                              *)
(*                                                                         *)
(* Further specifications cover the registry-based Task.Run run twice      *)
(* (SpecTwice) and with a copied task (SpecCopy), the Task.Run of task.go  *)
(* under the skip rules carried by the context (SpecScope), the CLI        *)
(* (SpecCLI), a Runnable run again in one execution context (SpecAgain),   *)
(* RunContext.ForEachPath under cancellation (SpecPaths), a command run as *)
(* a subprocess (SpecCommand, SpecCommandLive), the output of concurrent   *)
(* children (SpecOutput), the task export (SpecExport) and its JSON        *)
(* (SpecJson), the copying methods of the definitions (SpecDefs), the      *)
(* action of the "all" task (SpecAll), NewTaskGroup (SpecGroup), Deps      *)
(* under fair scheduling (SpecDepsLive) and Task.Run with actions that     *)
(* fail in two ways (SpecErrs).                                            *)
(***************************************************************************)
EXTENDS Integers, Sequences, FiniteSets, TLC

VARIABLES
    \* ---- registry-based Task.Run ----
    taskPaths,   \* rc.setup.paths: task name -> resolved paths
    skipRules,   \* rc.setup.skipRules: sequence of skipRule
    taskArgs,    \* rc.setup.args: task name -> CLI arguments of the task
    done,        \* execution.done
    errors,      \* execution.errors ("nil" when the map has no entry)
    pc,          \* position of each caller inside Task.Run
    cur,         \* the task a caller is running
    pend,        \* the error a caller is about to hand to markDone
    retv,        \* the error a caller is about to return
    calls,       \* number of Run calls made in this execution
    invoked,     \* per task: number of times t.Action was invoked
    actionPaths, \* per task: the taskRC.Paths of the latest invocation
    results,     \* per task: the set of values Run has returned
    returns,     \* per task: number of Run calls that have returned
    out,         \* rc.Out.Stdout: the header lines written so far
    prior,       \* the number of the execution, and what the execution
                 \* before it invoked and returned
    \* ---- sync.Once based Task.run, Deps and SerialDeps ----
    tree,        \* the task definitions: what each action calls
    once,        \* per task: state of t.once
    terr,        \* per task: t.err
    execSite,    \* per task: the call site whose goroutine runs the action
    site,        \* per composition: state of each child call task.run(ctx)
    siteVal,     \* per composition: what each child call returned
    gerr,        \* per Deps call: the errgroup's first error
    gcancel,     \* per Deps call: the errgroup's derived context is cancelled
    rootCancel,  \* the context of the top-level call is cancelled
    invocations, \* per task: number of times t.Action was invoked
    reports,     \* per Deps call: the children's results in completion order
    \* ---- FuncDef.run and the leaf Runnables ----
    ctree,       \* the Runnable being run: FuncDefs nested down to a leaf
    mode,        \* ec.mode: "collect" or "execute"
    skipNames,   \* the task names ec.shouldSkipTask skips
    cpos,        \* the node of ctree whose run method is entered next
    cret,        \* what the outermost run returned ("running" before that)
    executed,    \* the bodies that were executed, in order
    plan,        \* ec.plan: the functions registered by AddFunc
    seen,        \* ec.dedup: the keys shouldRun has been asked about
    headers,     \* the task headers printed
    visited,     \* the FuncDefs whose run was entered in execute mode
    pass,        \* 1 for the first traversal of ctree, 2 for the second,
                 \* 3 for a traversal that repeats one in execute mode
    \* ---- task.go: Task.Run under the skip rules carried by the context ----
    scopes,      \* the contexts of the enclosing scopes, innermost last:
                 \* each is the skipRules of its runConfig
    tpaths,      \* per task: t.paths
    tdone,       \* per task: t.once has fired
    tresult,     \* per task: t.err
    tcalls,      \* per task: number of times t.Action was invoked
    tseen,       \* per task: the RunContext.Paths of the invocation
    skipReturns, \* per task: number of Run calls that returned at the
                 \* global skip check
    tout,        \* Stdout: the header lines written so far
    tsteps,      \* number of steps the tree has taken
    \* ---- the CLI: run(tasks, defaultTask) ----
    registered,  \* tasks: the Name of each registered task; a task is
                 \* identified by its place in the list
    defaultTask, \* the default task (0 when nil)
    argv,        \* flag.Args()
    helpFlag,    \* -h was given
    taskMap,     \* taskMap: name -> task
    tasksToRun,  \* tasksToRun
    cpc,         \* position inside run
    cidx,        \* index of the loop the CLI is in
    exitCode,    \* what run returned (-1 while it runs)
    stderr,      \* the messages written to os.Stderr
    helpShown,   \* printHelp was called
    helpTable,   \* the rows of the task table printHelp wrote
    hiddenTasks, \* the registered tasks (indices) whose Hidden is set
    ranLog,      \* the tasks whose action was invoked, in order
    conce,       \* the tasks whose once has fired
    cerr,        \* per task: t.err
    interrupted, \* SIGINT / SIGTERM has cancelled the context
    sigAt,       \* the iteration of the run loop the signal arrived in
                 \* (0 when there was none)
    \* ---- RunContext.ForEachPath ----
    fversion,    \* which ForEachPath runs: the one with a ctx parameter
                 \* (funcdef.go) or the one without (task.go)
    fpaths,      \* rc.Paths
    fidx,        \* index of the next iteration of the loop
    fcancel,     \* the context of the action is cancelled
    fnCalls,     \* the paths fn was invoked with, in order
    fnRets,      \* what each of these calls of fn returned
    fret,        \* what ForEachPath returned ("running" before that)
    \* ---- a command run as a subprocess ----
    kversion,    \* what runs the command: pk.RunCommand, commandRunnable or
                 \* commandWithArgsRunnable
    kpath,       \* the path of the context ("" for the git root)
    kdir,        \* cmd.Dir
    kproc,       \* the subprocess: "new", "running", "exited" or "killed"
    ksig,        \* the signal sent to the subprocess: "none", "term", "kill"
    kcancel,     \* the context handed to the command is cancelled
    kexit,       \* the exit status of the subprocess (-1 before it has one)
    kret,        \* what the run of the command returned ("running" before)
    \* ---- the output of children that run concurrently ----
    oversion,    \* what runs the children: Deps, or a Parallel that gives
                 \* each child its own Output (withOutput)
    owritten,    \* per child: number of lines it has written
    obuf,        \* per child: the lines held in its buffer
    ofin,        \* per child: it has completed
    oorder,      \* the children in the order they completed
    osink,       \* the parent sink: the lines written to it, in order
    \* ---- the task export ----
    etree,       \* the Runnable handed to CollectTasks (<<>> for nil)
    exported,    \* whether CollectTasks has returned, and what
    \* ---- the JSON of the export ----
    jtasks,      \* the []TaskInfo handed to json.MarshalIndent
    jbytes,      \* whether ExportJSON has returned, and the document
    jparsed,     \* whether the document has been parsed, and into what
    \* ---- the task definitions and their copying methods ----
    heap,        \* the definitions allocated so far; a pointer is an index
    lastRecv,    \* the receiver of the last method call (0: none yet)
    lastNew,     \* the pointer the last method call returned (0: none)
    panicked,    \* a method call has panicked
    \* ---- the action of the "all" task ----
    skipGitDiff, \* cfg.SkipGitDiff
    orchestrators, \* the hidden tasks of the task groups, as collected
    customTasks, \* cfg.Tasks
    astate,      \* per task: new, running, ok or failed
    apc,         \* where the action of "all" is
    aidx,        \* the position of the loop of SerialDeps
    agerr,       \* the error the errgroup of Deps holds
    aret,        \* what the action of "all" returned, or running
    \* ---- NewTaskGroup and its orchestrator ----
    gname,       \* the name handed to NewTaskGroup
    given,       \* the tasks handed to NewTaskGroup (0 is a nil *Task)
    carray,      \* the array behind the caller's slice, up to its capacity
    group,       \* whether the group is made, its tasks and their array
    gstate,      \* per task: new, running, ok or failed
    gpc,         \* where the action of the orchestrator is
    gidx,        \* the position of the loop of SerialDeps
    glog,        \* the tasks whose action has started, in order
    gret         \* what the action of the orchestrator returned

runVars == <<taskPaths, skipRules, taskArgs, done, errors, pc, cur, pend, retv,
             calls, invoked, actionPaths, results, returns, out, prior>>

depsVars == <<tree, once, terr, execSite, site, siteVal, gerr, gcancel,
              rootCancel, invocations, reports>>

collectVars == <<ctree, mode, skipNames, cpos, cret, executed, plan, seen, headers,
                 visited, pass>>

scopeVars == <<scopes, tpaths, tdone, tresult, tcalls, tseen, skipReturns, tout,
               tsteps>>

cliVars == <<registered, defaultTask, argv, helpFlag, taskMap, tasksToRun, cpc, cidx,
             exitCode, stderr, helpShown, ranLog, conce, cerr, interrupted, sigAt,
             helpTable, hiddenTasks>>

pathsVars == <<fversion, fpaths, fidx, fcancel, fnCalls, fret, fnRets>>

commandVars == <<kversion, kpath, kdir, kproc, ksig, kcancel, kexit, kret>>

outputVars == <<oversion, owritten, obuf, ofin, oorder, osink>>

exportVars == <<etree, exported>>

jsonVars == <<jtasks, jbytes, jparsed>>

defsVars == <<heap, lastRecv, lastNew, panicked>>

groupVars == <<gname, given, carray, group, gstate, gpc, gidx, glog, gret>>

allVars == <<skipGitDiff, orchestrators, customTasks, astate, apc, aidx, agerr, aret>>

vars == <<runVars, depsVars, collectVars, scopeVars, cliVars, pathsVars, commandVars, outputVars, exportVars, jsonVars, defsVars, allVars, groupVars>>

notRun == <<depsVars, collectVars, scopeVars, cliVars, pathsVars, commandVars, outputVars, exportVars, jsonVars, defsVars, allVars, groupVars>>
notDeps == <<runVars, collectVars, scopeVars, cliVars, pathsVars, commandVars, outputVars, exportVars, jsonVars, defsVars, allVars, groupVars>>
notCollect == <<runVars, depsVars, scopeVars, cliVars, pathsVars, commandVars, outputVars, exportVars, jsonVars, defsVars, allVars, groupVars>>
notScope == <<runVars, depsVars, collectVars, cliVars, pathsVars, commandVars, outputVars, exportVars, jsonVars, defsVars, allVars, groupVars>>
notCLI == <<runVars, depsVars, collectVars, scopeVars, pathsVars, commandVars, outputVars, exportVars, jsonVars, defsVars, allVars, groupVars>>
notPaths == <<runVars, depsVars, collectVars, scopeVars, cliVars, commandVars, outputVars, exportVars, jsonVars, defsVars, allVars, groupVars>>
notCommand == <<runVars, depsVars, collectVars, scopeVars, cliVars, pathsVars, outputVars, exportVars, jsonVars, defsVars, allVars, groupVars>>
notOutput == <<runVars, depsVars, collectVars, scopeVars, cliVars, pathsVars, commandVars, exportVars, jsonVars, defsVars, allVars, groupVars>>
notExport == <<runVars, depsVars, collectVars, scopeVars, cliVars, pathsVars, commandVars, outputVars, jsonVars, defsVars, allVars, groupVars>>
notJson == <<runVars, depsVars, collectVars, scopeVars, cliVars, pathsVars, commandVars, outputVars, exportVars, defsVars, allVars, groupVars>>
notDefs == <<runVars, depsVars, collectVars, scopeVars, cliVars, pathsVars, commandVars, outputVars, exportVars, jsonVars, allVars, groupVars>>
notAll == <<runVars, depsVars, collectVars, scopeVars, cliVars, pathsVars, commandVars, outputVars, exportVars, jsonVars, defsVars, groupVars>>
notGroup == <<runVars, depsVars, collectVars, scopeVars, cliVars, pathsVars, commandVars, outputVars, exportVars, jsonVars, defsVars, allVars>>

\* ------------------------------------------------------------------------
\* Bounds
\* ------------------------------------------------------------------------
NumCallers == 2
MaxCalls == 3

Callers == 1..NumCallers

\* ------------------------------------------------------------------------
\* Task definitions and error values
\* ------------------------------------------------------------------------
\* The Task objects: two made by NewTask and a copy of the first, as
\* WithOptions, AsHidden and AsBuiltin return it: another object, same Name.
NewTasks == {"lint", "test"}

LintCopy == "lint.WithOptions"

Tasks == NewTasks \cup {LintCopy}

Name(t) == IF t = LintCopy THEN "lint" ELSE t

Names == {Name(t) : t \in Tasks}

Nil == "nil"
ActionFailed == "ActionFailed"
FlagUnknown == "FlagUnknown"

ActionResults == {Nil, ActionFailed}

\* fmt.Errorf("parse options: %w", err)
WrapParse(e) == IF e = FlagUnknown THEN "parse options: FlagUnknown"
                ELSE "parse options: other"

Cwd == "."

Rule(n, ps) == [taskName |-> n, paths |-> ps]

\* a parser that accepts every flag
parseOptionsFromCLI_AcceptsAll(args) == Nil

\* parseOptionsFromCLI: the flags of the task either parse or do not.
parseOptionsFromCLI(args) == IF args = "invalid" THEN FlagUnknown ELSE Nil

\* ------------------------------------------------------------------------
\* Pure helpers of RunContext
\* ------------------------------------------------------------------------
SeqContains(s, x) == \E i \in 1..Len(s) : s[i] = x

\* isSkipped without the path-specific branch
isSkipped_GlobalOnly(rules, taskName, path) ==
    \E i \in 1..Len(rules) :
        rules[i].taskName = taskName /\ Len(rules[i].paths) = 0

isSkipped(rules, taskName, path) ==
    \E i \in 1..Len(rules) :
        /\ rules[i].taskName = taskName
        /\ \/ Len(rules[i].paths) = 0
           \/ SeqContains(rules[i].paths, path)

shouldSkipGlobally(rules, taskName) == isSkipped(rules, taskName, "")

\* a filter that appends the paths in reverse
RECURSIVE FilterPaths_Reversed(_, _, _, _)
FilterPaths_Reversed(rules, taskName, all, keepSkipped) ==
    IF all = <<>> THEN <<>>
    ELSE LET p == Head(all)
             rest == FilterPaths_Reversed(rules, taskName, Tail(all), keepSkipped)
         IN IF isSkipped(rules, taskName, p) = keepSkipped
            THEN rest \o <<p>>
            ELSE rest

RECURSIVE FilterPaths(_, _, _, _)
FilterPaths(rules, taskName, all, keepSkipped) ==
    IF all = <<>> THEN <<>>
    ELSE LET p == Head(all)
             rest == FilterPaths(rules, taskName, Tail(all), keepSkipped)
         IN IF isSkipped(rules, taskName, p) = keepSkipped
            THEN <<p>> \o rest
            ELSE rest

AllPaths(paths, taskName) ==
    IF Len(paths[taskName]) = 0 THEN <<Cwd>> ELSE paths[taskName]

resolveAndFilterPaths(rules, paths, taskName) ==
    [paths   |-> FilterPaths(rules, taskName, AllPaths(paths, taskName), FALSE),
     skipped |-> FilterPaths(rules, taskName, AllPaths(paths, taskName), TRUE)]

\* a header that never lists the skipped paths
printTaskHeader_NoList(taskName, skippedPaths) ==
    [name |-> taskName, note |-> "", paths |-> <<>>]

printTaskHeader(taskName, skippedPaths) ==
    IF Len(skippedPaths) > 0
    THEN [name |-> taskName, note |-> "skipped in", paths |-> skippedPaths]
    ELSE [name |-> taskName, note |-> "", paths |-> <<>>]

\* the plain header in place of the "(skipped)" one
SkippedHeader_Plain(taskName) == [name |-> taskName, note |-> "", paths |-> <<>>]

SkippedHeader(taskName) == [name |-> taskName, note |-> "skipped", paths |-> <<>>]

\* ------------------------------------------------------------------------
\* The dedup registry (type execution)
\* ------------------------------------------------------------------------
\* a registry that records nothing
markDoneDone_Forget(d, name) == d

markDoneDone(d, name) == [d EXCEPT ![name] = TRUE]

markDoneErrors(e, name, err) == IF err # Nil THEN [e EXCEPT ![name] = err] ELSE e

\* a lookup that never finds the task
isDone_Never(d, name) == FALSE

isDone(d, name) == d[name]

isDoneErr(d, e, name) == IF d[name] THEN e[name] ELSE Nil

\* ------------------------------------------------------------------------
\* Initial state of an execution: NewRunContext plus the setup done by the
\* CLI and the path scopes before the tree runs.
\* ------------------------------------------------------------------------
PathLists == {<<>>, <<"svc/a", "svc/b">>, <<"svc/a", "svc/b", "svc/c">>}

RuleLists == {<<>>,
              <<Rule("lint", <<>>)>>,
              <<Rule("lint", <<"svc/b">>)>>,
              <<Rule("lint", <<"svc/a">>), Rule("lint", <<"svc/b">>)>>,
              <<Rule("lint", <<".">>), Rule("test", <<"svc/a">>)>>,
              <<Rule("lint", <<"svc/c", "svc/a">>)>>}

\* the rule list written for the list of three paths: it names the last
\* path and the first
RulesOfThree == <<Rule("lint", <<"svc/c", "svc/a">>)>>

ArgChoices == {"valid", "invalid"}

InitRun ==
    /\ taskPaths \in [Names -> PathLists]
    /\ taskPaths["test"] = <<>>
    /\ skipRules \in RuleLists
    /\ Len(taskPaths["lint"]) = 3 <=> skipRules = RulesOfThree
    /\ taskArgs \in [Names -> ArgChoices]
    /\ taskArgs["lint"] = "valid"
    /\ done = [n \in Names |-> FALSE]
    /\ errors = [n \in Names |-> Nil]
    /\ pc = [p \in Callers |-> "idle"]
    /\ cur = [p \in Callers |-> "lint"]
    /\ pend = [p \in Callers |-> Nil]
    /\ retv = [p \in Callers |-> Nil]
    /\ calls = 0
    /\ invoked = [t \in Tasks |-> 0]
    /\ actionPaths = [t \in Tasks |-> <<>>]
    /\ results = [t \in Tasks |-> {}]
    /\ returns = [t \in Tasks |-> 0]
    /\ out = <<>>
    /\ prior = [execNo |-> 1, invoked |-> [t \in Tasks |-> 0],
                returns |-> [t \in Tasks |-> 0]]

\* ------------------------------------------------------------------------
\* Task.Run, one action per step between two accesses to shared state
\* ------------------------------------------------------------------------

\* A branch of the tree calls t.Run(ctx, rc).
CallRun(p, t) ==
    /\ UNCHANGED notRun
    /\ pc[p] = "idle"
    /\ calls < MaxCalls
    /\ pc' = [pc EXCEPT ![p] = "isDone"]
    /\ cur' = [cur EXCEPT ![p] = t]
    /\ calls' = calls + 1
    /\ UNCHANGED <<prior, taskPaths, skipRules, taskArgs, done, errors, pend, retv,
                   invoked, actionPaths, results, returns, out>>

\* the caller returns v from Run
Return(p, v) ==
    /\ results' = [results EXCEPT ![cur[p]] = @ \cup {v}]
    /\ returns' = [returns EXCEPT ![cur[p]] = @ + 1]

\* if done, err := dedup.isDone(t.Name); done { return err }
CheckDone(p) ==
    /\ UNCHANGED notRun
    /\ pc[p] = "isDone"
    /\ IF isDone(done, Name(cur[p]))
       THEN /\ Return(p, isDoneErr(done, errors, Name(cur[p])))
            /\ pc' = [pc EXCEPT ![p] = "idle"]
       ELSE /\ pc' = [pc EXCEPT ![p] = "prepare"]
            /\ UNCHANGED <<results, returns>>
    /\ UNCHANGED <<prior, taskPaths, skipRules, taskArgs, done, errors, cur, pend, retv,
                   calls, invoked, actionPaths, out>>

\* From the global skip check up to the invocation of the action.
Prepare(p) ==
    /\ UNCHANGED notRun
    /\ pc[p] = "prepare"
    /\ LET t == cur[p]
           n == Name(t)
           rf == resolveAndFilterPaths(skipRules, taskPaths, n)
           perr == parseOptionsFromCLI(taskArgs[n])
       IN IF shouldSkipGlobally(skipRules, n)
          THEN /\ pend' = [pend EXCEPT ![p] = Nil]
               /\ retv' = [retv EXCEPT ![p] = Nil]
               /\ pc' = [pc EXCEPT ![p] = "markDone"]
               /\ UNCHANGED <<out, invoked, actionPaths>>
          ELSE IF Len(rf.paths) = 0
          THEN /\ out' = Append(out, SkippedHeader(n))
               /\ pend' = [pend EXCEPT ![p] = Nil]
               /\ retv' = [retv EXCEPT ![p] = Nil]
               /\ pc' = [pc EXCEPT ![p] = "markDone"]
               /\ UNCHANGED <<invoked, actionPaths>>
          ELSE IF perr # Nil
          THEN /\ out' = Append(out, printTaskHeader(n, rf.skipped))
               /\ pend' = [pend EXCEPT ![p] = WrapParse(perr)]
               /\ retv' = [retv EXCEPT ![p] = perr]
               /\ pc' = [pc EXCEPT ![p] = "markDone"]
               /\ UNCHANGED <<invoked, actionPaths>>
          ELSE /\ out' = Append(out, printTaskHeader(n, rf.skipped))
               /\ invoked' = [invoked EXCEPT ![t] = @ + 1]
               /\ actionPaths' = [actionPaths EXCEPT ![t] = rf.paths]
               /\ pc' = [pc EXCEPT ![p] = "action"]
               /\ UNCHANGED <<pend, retv>>
    /\ UNCHANGED <<prior, taskPaths, skipRules, taskArgs, done, errors, cur, calls,
                   results, returns>>

\* err = t.Action(ctx, taskRC) returns
ActionReturn(p, r) ==
    /\ UNCHANGED notRun
    /\ pc[p] = "action"
    /\ pend' = [pend EXCEPT ![p] = r]
    /\ retv' = [retv EXCEPT ![p] = r]
    /\ pc' = [pc EXCEPT ![p] = "markDone"]
    /\ UNCHANGED <<prior, taskPaths, skipRules, taskArgs, done, errors, cur, calls,
                   invoked, actionPaths, results, returns, out>>

\* dedup.markDone(t.Name, ...); return ...
MarkDone(p) ==
    /\ UNCHANGED notRun
    /\ pc[p] = "markDone"
    /\ done' = markDoneDone(done, Name(cur[p]))
    /\ errors' = markDoneErrors(errors, Name(cur[p]), pend[p])
    /\ Return(p, retv[p])
    /\ pc' = [pc EXCEPT ![p] = "idle"]
    /\ UNCHANGED <<prior, taskPaths, skipRules, taskArgs, cur, pend, retv, calls,
                   invoked, actionPaths, out>>

RunStep(p) ==
    \/ \E t \in NewTasks : CallRun(p, t)
    \/ CheckDone(p)
    \/ Prepare(p)
    \/ \E r \in ActionResults : ActionReturn(p, r)
    \/ MarkDone(p)

\* ------------------------------------------------------------------------
\* Task (sync.Once), Deps and SerialDeps
\*
\* A task's action is a leaf (user code) or a call of SerialDeps / Deps on
\* other tasks, as in NewTaskGroup. "main" is the top-level caller. A call
\* site <<s, j>> is the j-th child call task.run(ctx) made by composition s.
\* ------------------------------------------------------------------------
Main == "main"
DepTasks == {"a", "b", "c", "d", "e"}
Nodes == DepTasks \cup {Main}
NoTask == "nil"
Cancelled == "Cancelled"
Unset == "unset"

Leaves == [n \in Nodes |-> "leaf"]
NoKids == [n \in Nodes |-> <<>>]

Trees == {
    \* two serial pipelines in parallel sharing their first step
    [kind |-> [Leaves EXCEPT ![Main] = "parallel", !["a"] = "serial", !["b"] = "serial"],
     kids |-> [NoKids EXCEPT ![Main] = <<"a", "b">>, !["a"] = <<"c", "d">>,
                             !["b"] = <<"c", "e">>]],
    \* a serial pipeline, with a nil task and a repeated task
    [kind |-> [Leaves EXCEPT ![Main] = "serial"],
     kids |-> [NoKids EXCEPT ![Main] = <<"a", NoTask, "b", "a", "c">>]],
    \* a parallel group with a nil task
    [kind |-> [Leaves EXCEPT ![Main] = "parallel"],
     kids |-> [NoKids EXCEPT ![Main] = <<"a", NoTask, "b", "c">>]],
    \* two groups one after the other
    [kind |-> [Leaves EXCEPT ![Main] = "serial", !["a"] = "parallel", !["b"] = "parallel"],
     kids |-> [NoKids EXCEPT ![Main] = <<"a", "b">>, !["a"] = <<"c", "d">>,
                             !["b"] = <<"c", "e">>]],
    \* two groups side by side sharing a child
    [kind |-> [Leaves EXCEPT ![Main] = "parallel", !["a"] = "parallel", !["b"] = "parallel"],
     kids |-> [NoKids EXCEPT ![Main] = <<"a", "b">>, !["a"] = <<"c", "d">>,
                             !["b"] = <<"c", "e">>]],
    \* compositions without children
    [kind |-> [Leaves EXCEPT ![Main] = "serial", !["a"] = "parallel", !["b"] = "serial",
                             !["c"] = "parallel"],
     kids |-> [NoKids EXCEPT ![Main] = <<"a", "b", "c", "d">>, !["b"] = <<NoTask>>,
                             !["c"] = <<NoTask, NoTask>>]]
}

Kind(s) == tree.kind[s]
Kids(s) == tree.kids[s]
Sites(s) == 1..Len(Kids(s))

MainSite == <<Main, 0>>

InitDepsWith(tr) ==
    /\ tree = tr
    /\ once = [n \in Nodes |-> IF n = Main THEN "running" ELSE "new"]
    /\ terr = [n \in Nodes |-> Nil]
    /\ execSite = [n \in Nodes |-> MainSite]
    /\ site = [n \in Nodes |-> [j \in 1..Len(tr.kids[n]) |-> "idle"]]
    /\ siteVal = [n \in Nodes |-> [j \in 1..Len(tr.kids[n]) |-> Nil]]
    /\ gerr = [n \in Nodes |-> Unset]
    /\ gcancel = [n \in Nodes |-> FALSE]
    /\ rootCancel = FALSE
    /\ invocations = [n \in Nodes |-> 0]
    /\ reports = [n \in Nodes |-> <<>>]

InitDeps == \E tr \in Trees : InitDepsWith(tr)

\* the state of this part under the other specifications: nothing is run
IdleDeps ==
    /\ tree = <<>> /\ once = <<>> /\ terr = <<>> /\ execSite = <<>>
    /\ site = <<>> /\ siteVal = <<>> /\ gerr = <<>> /\ gcancel = <<>>
    /\ rootCancel = FALSE /\ invocations = <<>> /\ reports = <<>>

\* Whether the context handed to the action of s is cancelled. The context
\* of a Deps child is derived from the caller's (errgroup.WithContext).
RECURSIVE CancelledFor(_)
CancelledFor(s) ==
    IF s = Main THEN rootCancel
    ELSE LET ps == execSite[s][1]
         IN IF Kind(ps) = "parallel"
            THEN gcancel[ps] \/ CancelledFor(ps)
            ELSE CancelledFor(ps)

\* The action of node s returns v. For a task this ends once.Do in the
\* goroutine of the call site that runs it: t.err is set, the Once is done
\* and task.run returns t.err to that call site.
Finish(s, v) ==
    /\ once' = [once EXCEPT ![s] = "done"]
    /\ terr' = [terr EXCEPT ![s] = v]
    /\ IF s = Main
       THEN UNCHANGED <<site, siteVal>>
       ELSE LET ps == execSite[s][1]
                pj == execSite[s][2]
            IN /\ site' = [site EXCEPT ![ps][pj] =
                               IF Kind(ps) = "parallel" THEN "ret" ELSE "fin"]
               /\ siteVal' = [siteVal EXCEPT ![ps][pj] = v]

\* task.run(ctx) called at site <<s, j>>: t.once.Do(...); return t.err
CallTaskRun(s, j) ==
    LET t == Kids(s)[j]
        after == IF Kind(s) = "parallel" THEN "ret" ELSE "fin"
    IN CASE once[t] = "new" ->
              /\ once' = [once EXCEPT ![t] = "running"]
              /\ execSite' = [execSite EXCEPT ![t] = <<s, j>>]
              /\ invocations' = [invocations EXCEPT ![t] = @ + 1]
              /\ site' = [site EXCEPT ![s][j] = "exec"]
              /\ UNCHANGED siteVal
         [] once[t] = "running" ->
              /\ site' = [site EXCEPT ![s][j] = "wait"]
              /\ UNCHANGED <<once, execSite, invocations, siteVal>>
         [] once[t] = "done" ->
              /\ site' = [site EXCEPT ![s][j] = after]
              /\ siteVal' = [siteVal EXCEPT ![s][j] = terr[t]]
              /\ UNCHANGED <<once, execSite, invocations>>

\* a Once that does not wake the calls blocked in Do
WaitResume_Lost(s, j) ==
    /\ UNCHANGED notDeps
    /\ site[s][j] = "wait"
    /\ once[Kids(s)[j]] = "new"
    /\ UNCHANGED depsVars

\* a call blocked in once.Do returns t.err when the running call has ended
WaitResume(s, j) ==
    /\ UNCHANGED notDeps
    /\ site[s][j] = "wait"
    /\ once[Kids(s)[j]] = "done"
    /\ site' = [site EXCEPT ![s][j] = IF Kind(s) = "parallel" THEN "ret" ELSE "fin"]
    /\ siteVal' = [siteVal EXCEPT ![s][j] = terr[Kids(s)[j]]]
    /\ UNCHANGED <<tree, once, terr, execSite, gerr, gcancel, rootCancel,
                   invocations, reports>>

\* a leaf action returns: any result, or Cancelled if it saw its context
\* cancelled
LeafResults(t) == {Nil, ActionFailed} \cup (IF CancelledFor(t) THEN {Cancelled} ELSE {})

LeafReturn(t, r) ==
    /\ UNCHANGED notDeps
    /\ t # Main
    /\ Kind(t) = "leaf"
    /\ once[t] = "running"
    /\ r \in LeafResults(t)
    /\ Finish(t, r)
    /\ UNCHANGED <<tree, execSite, gerr, gcancel, rootCancel, invocations, reports>>

\* ---- SerialDeps ----
FirstIdle(st) ==
    IF \E j \in 1..Len(st) : st[j] = "idle"
    THEN CHOOSE j \in 1..Len(st) : st[j] = "idle" /\ \A i \in 1..(j - 1) : st[i] # "idle"
    ELSE 0

\* a loop that does not return on a child's error
SerialDepsNext_KeepGoing(st, val) ==
    IF FirstIdle(st) # 0
    THEN [op |-> "next", idx |-> FirstIdle(st)]
    ELSE IF \E i \in 1..Len(st) : st[i] = "fin" /\ val[i] # Nil
    THEN [op |-> "return",
          err |-> val[CHOOSE i \in 1..Len(st) : st[i] = "fin" /\ val[i] # Nil]]
    ELSE [op |-> "return", err |-> Nil]

\* a loop that takes a nil task for a failure
SerialDepsNext_NilFails(st, val) ==
    IF \E i \in 1..Len(st) : st[i] = "skip"
    THEN [op |-> "return", err |-> ActionFailed]
    ELSE IF FirstIdle(st) # 0
    THEN [op |-> "next", idx |-> FirstIdle(st)]
    ELSE [op |-> "return", err |-> Nil]

\* What the loop of SerialDeps does next, given the state of its child calls:
\* return the error of the child that just failed, go on to the next child,
\* or return nil after the last one.
SerialDepsNext(st, val) ==
    IF \E i \in 1..Len(st) : st[i] = "fin" /\ val[i] # Nil
    THEN [op |-> "return",
          err |-> val[CHOOSE i \in 1..Len(st) : st[i] = "fin" /\ val[i] # Nil]]
    ELSE IF FirstIdle(st) # 0
    THEN [op |-> "next", idx |-> FirstIdle(st)]
    ELSE [op |-> "return", err |-> Nil]

InChild(s) == \E j \in Sites(s) : site[s][j] \in {"exec", "wait", "ret", "ready"}

SerialStep(s) ==
    /\ UNCHANGED notDeps
    /\ Kind(s) = "serial"
    /\ once[s] = "running"
    /\ ~InChild(s)
    /\ LET nx == SerialDepsNext(site[s], siteVal[s])
       IN IF nx.op = "return"
          THEN /\ Finish(s, nx.err)
               /\ UNCHANGED <<execSite, invocations>>
          ELSE IF Kids(s)[nx.idx] = NoTask
          THEN /\ site' = [site EXCEPT ![s][nx.idx] = "skip"]
               /\ UNCHANGED <<once, terr, siteVal, execSite, invocations>>
          ELSE /\ CallTaskRun(s, nx.idx)
               /\ UNCHANGED terr
    /\ UNCHANGED <<tree, gerr, gcancel, rootCancel, reports>>

\* ---- Deps ----
\* the loop of Deps: g.Go for the next task, nil tasks are skipped
DepsSpawn(s) ==
    /\ UNCHANGED notDeps
    /\ Kind(s) = "parallel"
    /\ once[s] = "running"
    /\ FirstIdle(site[s]) # 0
    /\ LET j == FirstIdle(site[s])
       IN site' = [site EXCEPT ![s][j] =
                       IF Kids(s)[j] = NoTask THEN "skip" ELSE "ready"]
    /\ UNCHANGED <<tree, once, terr, execSite, siteVal, gerr, gcancel, rootCancel,
                   invocations, reports>>

\* the goroutine of a child starts: return task.run(ctx)
DepsGo(s, j) ==
    /\ UNCHANGED notDeps
    /\ Kind(s) = "parallel"
    /\ site[s][j] = "ready"
    /\ CallTaskRun(s, j)
    /\ UNCHANGED <<tree, terr, gerr, gcancel, rootCancel, reports>>

\* an errgroup that keeps the last error
errOnce_LastWins(g, err) == IF err # Nil THEN err ELSE g

\* a group made without WithContext: nothing is cancelled on an error
cancelOnError_Never(c, g, err) == c

\* errgroup: the first non-nil error is kept ...
errOnce(g, err) == IF err # Nil /\ g = Unset THEN err ELSE g

\* ... and cancels the context derived by errgroup.WithContext
cancelOnError(c, g, err) == c \/ (err # Nil /\ g = Unset)

\* the goroutine of a child ends: errgroup records its result
DepsReport(s, j) ==
    /\ UNCHANGED notDeps
    /\ Kind(s) = "parallel"
    /\ site[s][j] = "ret"
    /\ gerr' = [gerr EXCEPT ![s] = errOnce(gerr[s], siteVal[s][j])]
    /\ gcancel' = [gcancel EXCEPT ![s] = cancelOnError(gcancel[s], gerr[s], siteVal[s][j])]
    /\ reports' = [reports EXCEPT ![s] = Append(@, siteVal[s][j])]
    /\ site' = [site EXCEPT ![s][j] = "fin"]
    /\ UNCHANGED <<tree, once, terr, execSite, siteVal, rootCancel, invocations>>

\* a Wait that returns as soon as one goroutine has ended
WaitReturns_FirstEnded(st) == \E j \in 1..Len(st) : st[j] = "fin"

\* g.Wait() may return: every goroutine started with g.Go has ended
WaitReturns(st) == \A j \in 1..Len(st) : st[j] \in {"fin", "skip"}

\* return g.Wait(), or return nil at once when there are no tasks
DepsWait(s) ==
    /\ UNCHANGED notDeps
    /\ Kind(s) = "parallel"
    /\ once[s] = "running"
    /\ WaitReturns(site[s])
    /\ gcancel' = [gcancel EXCEPT ![s] = Len(Kids(s)) > 0]
    /\ Finish(s, IF gerr[s] = Unset THEN Nil ELSE gerr[s])
    /\ UNCHANGED <<tree, execSite, gerr, rootCancel, invocations, reports>>

\* SIGINT / SIGTERM: the CLI cancels the top-level context
Interrupt ==
    /\ UNCHANGED notDeps
    /\ once[Main] = "running"
    /\ ~rootCancel
    /\ rootCancel' = TRUE
    /\ UNCHANGED <<tree, once, terr, execSite, site, siteVal, gerr, gcancel,
                   invocations, reports>>

NextDeps ==
    \/ \E s \in Nodes : SerialStep(s)
    \/ \E s \in Nodes : DepsSpawn(s)
    \/ \E s \in Nodes : \E j \in Sites(s) : DepsGo(s, j)
    \/ \E s \in Nodes : \E j \in Sites(s) : DepsReport(s, j)
    \/ \E s \in Nodes : DepsWait(s)
    \/ \E s \in Nodes : \E j \in Sites(s) : WaitResume(s, j)
    \/ \E t \in DepTasks : \E r \in {Nil, ActionFailed, Cancelled} : LeafReturn(t, r)
    \/ Interrupt

\* ------------------------------------------------------------------------
\* FuncDef.run and the leaf Runnables, in collect and in execute mode
\*
\* A Runnable is a chain of FuncDefs, each the body of the one before, that
\* ends in a leaf: a plain function wrapped by toRunnable ("fn"), Run
\* ("cmd"), RunWith ("cmdWith") or Do ("do").
\* ------------------------------------------------------------------------
MaxDepth == 2

FuncNames == {"fmt", "lint"}
LeafTypes == {"fn", "cmd", "cmdWith", "do"}

FuncDefs == [type : {"func"}, name : FuncNames, hidden : BOOLEAN]
LeafNodes == [type : LeafTypes]

RECURSIVE Chains(_)
Chains(d) ==
    IF d = 0 THEN {<<>>}
    ELSE Chains(d - 1) \cup {<<f>> \o c : f \in FuncDefs, c \in {x \in Chains(d - 1) : Len(x) = d - 1}}

\* toRunnable wraps a plain function only as the body handed to Func
Runnables ==
    {c \o <<l>> : c \in Chains(MaxDepth), l \in LeafNodes} \
        {<<l>> : l \in {x \in LeafNodes : x.type = "fn"}}

modeCollect == "collect"
modeExecute == "execute"

InitCollectWith(tr, m, sk) ==
    /\ ctree = tr
    /\ mode = m
    /\ skipNames = sk
    /\ cpos = 1
    /\ cret = "running"
    /\ executed = <<>>
    /\ plan = <<>>
    /\ seen = {}
    /\ headers = <<>>
    /\ visited = <<>>
    /\ pass = 1

InitCollect ==
    \E tr \in Runnables : \E m \in {modeCollect, modeExecute} :
        \E sk \in {{}, {"lint"}} : InitCollectWith(tr, m, sk)

\* the state of this part under the other specifications: nothing is run
IdleCollect ==
    /\ ctree = <<>> /\ mode = "" /\ skipNames = {} /\ cpos = 0 /\ cret = ""
    /\ executed = <<>> /\ plan = <<>> /\ seen = {} /\ headers = <<>>
    /\ visited = <<>> /\ pass = 0

\* ec.dedup.shouldRun(key): true the first time a key is asked about
shouldRun(keys, k) == k \notin keys

\* a skip check that skips every task
shouldSkipTask_Always(names, n) == TRUE

\* ec.shouldSkipTask(name)
shouldSkipTask(names, n) == n \in names

\* runnableKey(f) identifies the FuncDef: its place in the tree
runnableKey(i) == i

CollectResults == {Nil, ActionFailed}

\* FuncDef.run
RunFuncDef ==
    /\ UNCHANGED notCollect
    /\ cret = "running"
    /\ ctree[cpos].type = "func"
    /\ LET f == ctree[cpos]
       IN IF mode = modeCollect
          THEN /\ plan' = Append(plan, [name |-> f.name, hidden |-> f.hidden,
                                        deduped |-> ~shouldRun(seen, runnableKey(cpos))])
               /\ seen' = seen \cup {runnableKey(cpos)}
               /\ cpos' = cpos + 1
               /\ UNCHANGED <<cret, headers, visited>>
          ELSE IF shouldSkipTask(skipNames, f.name)
          THEN /\ cret' = Nil
               /\ visited' = Append(visited, f.name)
               /\ UNCHANGED <<plan, seen, cpos, headers>>
          ELSE /\ headers' = IF f.hidden THEN headers ELSE Append(headers, f.name)
               /\ visited' = Append(visited, f.name)
               /\ cpos' = cpos + 1
               /\ UNCHANGED <<plan, seen, cret>>
    /\ UNCHANGED <<ctree, mode, skipNames, executed, pass>>

\* funcRunnable.run: return f.fn(ctx)
RunFuncRunnable(r) ==
    /\ UNCHANGED notCollect
    /\ cret = "running"
    /\ ctree[cpos].type = "fn"
    /\ executed' = Append(executed, "fn")
    /\ cret' = r
    /\ UNCHANGED <<ctree, mode, skipNames, cpos, plan, seen, headers, visited, pass>>

\* commandRunnable.run
RunCommand(r) ==
    /\ UNCHANGED notCollect
    /\ cret = "running"
    /\ ctree[cpos].type = "cmd"
    /\ IF mode = modeCollect
       THEN /\ cret' = Nil
            /\ UNCHANGED executed
       ELSE /\ executed' = Append(executed, "cmd")
            /\ cret' = r
    /\ UNCHANGED <<ctree, mode, skipNames, cpos, plan, seen, headers, visited, pass>>

\* commandWithArgsRunnable.run without the check of ec.mode
RunCommandWithArgs_NoGuard(r) ==
    /\ UNCHANGED notCollect
    /\ cret = "running"
    /\ ctree[cpos].type = "cmdWith"
    /\ executed' = executed \o <<"argsFn", "cmd">>
    /\ cret' = r
    /\ UNCHANGED <<ctree, mode, skipNames, cpos, plan, seen, headers, visited, pass>>

\* commandWithArgsRunnable.run
RunCommandWithArgs(r) ==
    /\ UNCHANGED notCollect
    /\ cret = "running"
    /\ ctree[cpos].type = "cmdWith"
    /\ IF mode = modeCollect
       THEN /\ cret' = Nil
            /\ UNCHANGED executed
       ELSE /\ executed' = executed \o <<"argsFn", "cmd">>
            /\ cret' = r
    /\ UNCHANGED <<ctree, mode, skipNames, cpos, plan, seen, headers, visited, pass>>

\* doRunnable.run
RunDo(r) ==
    /\ UNCHANGED notCollect
    /\ cret = "running"
    /\ ctree[cpos].type = "do"
    /\ IF mode = modeCollect
       THEN /\ cret' = Nil
            /\ UNCHANGED executed
       ELSE /\ executed' = Append(executed, "do")
            /\ cret' = r
    /\ UNCHANGED <<ctree, mode, skipNames, cpos, plan, seen, headers, visited, pass>>

\* The same Runnable is run again in execute mode, with a new execContext;
\* the plan of the collect traversal stays with the caller.
ExecuteAfterCollect ==
    /\ UNCHANGED notCollect
    /\ pass = 1
    /\ mode = modeCollect
    /\ cret # "running"
    /\ mode' = modeExecute
    /\ pass' = 2
    /\ cpos' = 1
    /\ cret' = "running"
    /\ seen' = {}
    /\ UNCHANGED <<ctree, skipNames, executed, plan, headers, visited>>

\* FuncDef.Run is called once more on the same Runnable with the same
\* context: the execContext, its dedup state included, is the one of the
\* traversal before.
RunAgain ==
    /\ UNCHANGED notCollect
    /\ pass < 3
    /\ mode = modeExecute
    /\ cret # "running"
    /\ pass' = 3
    /\ cpos' = 1
    /\ cret' = "running"
    /\ UNCHANGED <<ctree, mode, skipNames, executed, plan, seen, headers, visited>>

NextCollect ==
    \/ RunFuncDef
    \/ \E r \in CollectResults : RunFuncRunnable(r)
    \/ \E r \in CollectResults : RunCommand(r)
    \/ \E r \in CollectResults : RunCommandWithArgs(r)
    \/ \E r \in CollectResults : RunDo(r)
    \/ ExecuteAfterCollect

\* ------------------------------------------------------------------------
\* task.go: the skip rules travel in the context (runConfig), a scope puts
\* its rules into the context of its children with withSkipRules, and
\* Task.Run reads them with isSkipped. The tree is walked by one goroutine.
\* ------------------------------------------------------------------------
MaxSteps == 4
MaxNest == 2

ScopeRules == {<<Rule("lint", <<>>)>>,
               <<Rule("test", <<".">>)>>,
               <<Rule("lint", <<"svc/a">>), Rule("test", <<>>)>>}

\* runConfigFromContext on a context without run config: no rules
RootRules == <<>>

\* withSkipRules: the skipRules of the new run config
withSkipRules(cfgRules, rules) == rules

CtxRules == scopes[Len(scopes)]

InitScope ==
    /\ scopes = <<RootRules>>
    /\ tpaths \in [Names -> PathLists]
    /\ tpaths["test"] = <<>>
    /\ tdone = [t \in Names |-> FALSE]
    /\ tresult = [t \in Names |-> Nil]
    /\ tcalls = [t \in Names |-> 0]
    /\ tseen = [t \in Names |-> <<>>]
    /\ skipReturns = [t \in Names |-> 0]
    /\ tout = <<>>
    /\ tsteps = 0

\* the state of this part under the other specifications: nothing is run
IdleScope ==
    /\ scopes = <<>> /\ tpaths = <<>> /\ tdone = <<>> /\ tresult = <<>>
    /\ tcalls = <<>> /\ tseen = <<>> /\ skipReturns = <<>> /\ tout = <<>>
    /\ tsteps = 0

\* a scope with skip rules runs its child: ctx = withSkipRules(ctx, rules)
EnterScope(rules) ==
    /\ UNCHANGED notScope
    /\ tsteps < MaxSteps
    /\ Len(scopes) <= MaxNest
    /\ scopes' = Append(scopes, withSkipRules(CtxRules, rules))
    /\ tsteps' = tsteps + 1
    /\ UNCHANGED <<tpaths, tdone, tresult, tcalls, tseen, skipReturns, tout>>

\* the child of the innermost scope has returned
LeaveScope ==
    /\ UNCHANGED notScope
    /\ Len(scopes) > 1
    /\ scopes' = SubSeq(scopes, 1, Len(scopes) - 1)
    /\ UNCHANGED <<tpaths, tdone, tresult, tcalls, tseen, skipReturns, tout, tsteps>>

\* Task.Run of task.go, the action returning r if it is invoked
TaskRun(t, r) ==
    /\ UNCHANGED notScope
    /\ tsteps < MaxSteps
    /\ tsteps' = tsteps + 1
    /\ LET paths == IF Len(tpaths[t]) = 0 THEN <<Cwd>> ELSE tpaths[t]
           filteredPaths == FilterPaths(CtxRules, t, paths, FALSE)
           skippedPaths == FilterPaths(CtxRules, t, paths, TRUE)
       IN IF isSkipped(CtxRules, t, "")
          THEN /\ skipReturns' = [skipReturns EXCEPT ![t] = @ + 1]
               /\ UNCHANGED <<tdone, tresult, tcalls, tseen, tout>>
          ELSE IF tdone[t]
          THEN UNCHANGED <<tdone, tresult, tcalls, tseen, tout, skipReturns>>
          ELSE IF Len(filteredPaths) = 0
          THEN /\ tout' = Append(tout, SkippedHeader(t))
               /\ tdone' = [tdone EXCEPT ![t] = TRUE]
               /\ UNCHANGED <<tresult, tcalls, tseen, skipReturns>>
          ELSE /\ tout' = Append(tout, printTaskHeader(t, skippedPaths))
               /\ tcalls' = [tcalls EXCEPT ![t] = @ + 1]
               /\ tseen' = [tseen EXCEPT ![t] = filteredPaths]
               /\ tresult' = [tresult EXCEPT ![t] = r]
               /\ tdone' = [tdone EXCEPT ![t] = TRUE]
               /\ UNCHANGED skipReturns
    /\ UNCHANGED <<scopes, tpaths>>

NextScope ==
    \/ \E rules \in ScopeRules : EnterScope(rules)
    \/ LeaveScope
    \/ \E t \in Names : \E r \in ActionResults : TaskRun(t, r)

\* ------------------------------------------------------------------------
\* The CLI: run(tasks, defaultTask) builds the task map, resolves the names
\* on the command line and then runs the tasks one after the other.
\* ------------------------------------------------------------------------
MaxArgs == 3

ArgNames == {"lint", "fmt", "test", "nope"}

RegisteredLists == {<<"lint", "fmt">>, <<"lint">>, <<"lint", "fmt", "lint">>,
                    <<"lint", "fmt", "test">>}

SeqsUpTo(S, n) == UNION {[1..k -> S] : k \in 0..n}

InitCLI ==
    /\ registered \in RegisteredLists
    /\ defaultTask \in {0, 1}
    /\ argv \in SeqsUpTo(ArgNames, MaxArgs)
    /\ helpFlag \in BOOLEAN
    /\ taskMap = <<>>
    /\ tasksToRun = <<>>
    /\ cpc = "start"
    /\ cidx = 1
    /\ exitCode = -1
    /\ stderr = <<>>
    /\ helpShown = FALSE
    /\ helpTable = <<>>
    \* run reads Hidden in printHelp only
    /\ hiddenTasks \in (IF helpFlag THEN SUBSET (1..Len(registered)) ELSE {{}})
    /\ ranLog = <<>>
    /\ conce = {}
    /\ cerr = [i \in 1..Len(registered) |-> Nil]
    /\ interrupted = FALSE
    /\ sigAt = 0

\* the state of this part under the other specifications: nothing is run
IdleCLI ==
    /\ registered = <<>> /\ defaultTask = 0 /\ argv = <<>> /\ helpFlag = FALSE
    /\ taskMap = <<>> /\ tasksToRun = <<>> /\ cpc = "" /\ cidx = 0
    /\ exitCode = -1 /\ stderr = <<>> /\ helpShown = FALSE /\ ranLog = <<>>
    /\ conce = {} /\ cerr = <<>> /\ interrupted = FALSE /\ sigAt = 0
    /\ helpTable = <<>> /\ hiddenTasks = {}

\* the order of the task names under visible[i].Name < visible[j].Name
NameRank ==
    [n \in ArgNames |->
        CASE n = "fmt" -> 1 [] n = "lint" -> 2 [] n = "nope" -> 3 [] n = "test" -> 4]

\* a table that lists the hidden tasks too
Visible_All(tasks, hid) == 1..Len(tasks)

\* for _, t := range tasks { if !t.Hidden { visible = append(visible, t) } }
Visible(tasks, hid) == {i \in 1..Len(tasks) : i \notin hid}

\* sort.Slice(visible, ...) is not stable: any arrangement of the tasks
\* that ascends in name
SortedByName(S, tasks) ==
    {order \in [1..Cardinality(S) -> S] :
        /\ \A i, j \in 1..Cardinality(S) : i # j => order[i] # order[j]
        /\ \A i \in 1..(Cardinality(S) - 1) :
               NameRank[tasks[order[i]]] <= NameRank[tasks[order[i + 1]]]}

\* the rows of the table, in the order given
printHelp(tasks, dflt, order) ==
    [i \in 1..Len(order) |->
        [task |-> order[i], name |-> tasks[order[i]],
         defaultMark |-> dflt # 0 /\ tasks[order[i]] = tasks[dflt]]]

\* for _, t := range tasks { taskMap[t.Name] = t }
BuildTaskMap(tasks) ==
    [n \in {tasks[i] : i \in 1..Len(tasks)} |->
        CHOOSE i \in 1..Len(tasks) :
            tasks[i] = n /\ \A j \in (i + 1)..Len(tasks) : tasks[j] # n]

Exit(code) ==
    /\ cpc' = "exit"
    /\ exitCode' = code

\* flag.Parse, -h, and the task map
ParseFlags ==
    /\ UNCHANGED notCLI
    /\ cpc = "start"
    /\ IF helpFlag
       THEN /\ helpShown' = TRUE
            /\ \E order \in SortedByName(Visible(registered, hiddenTasks), registered) :
                   helpTable' = printHelp(registered, defaultTask, order)
            /\ Exit(0)
            /\ UNCHANGED <<taskMap, tasksToRun, stderr, cidx>>
       ELSE /\ taskMap' = BuildTaskMap(registered)
            /\ IF Len(argv) > 0
               THEN /\ cpc' = "resolve"
                    /\ UNCHANGED <<tasksToRun, stderr, exitCode>>
               ELSE IF defaultTask # 0
               THEN /\ tasksToRun' = <<defaultTask>>
                    /\ cpc' = "run"
                    /\ UNCHANGED <<stderr, exitCode>>
               ELSE /\ stderr' = Append(stderr, [msg |-> "no task specified and no default task"])
                    /\ Exit(1)
                    /\ UNCHANGED tasksToRun
            /\ UNCHANGED <<helpShown, helpTable, cidx>>
    /\ UNCHANGED <<registered, defaultTask, argv, helpFlag, ranLog, conce, cerr,
                   interrupted, sigAt, hiddenTasks>>

\* a loop that runs each task as soon as its name is resolved
ResolveArg_RunsAtOnce ==
    /\ UNCHANGED notCLI
    /\ cpc = "resolve"
    /\ LET name == argv[cidx]
       IN IF name \notin DOMAIN taskMap
          THEN /\ stderr' = Append(stderr, [msg |-> "unknown task", name |-> name])
               /\ Exit(1)
               /\ UNCHANGED <<tasksToRun, cidx, ranLog, conce>>
          ELSE /\ tasksToRun' = Append(tasksToRun, taskMap[name])
               /\ ranLog' = Append(ranLog, taskMap[name])
               /\ conce' = conce \cup {taskMap[name]}
               /\ IF cidx = Len(argv)
                  THEN cpc' = "run" /\ cidx' = Len(argv) + 1
                  ELSE cidx' = cidx + 1 /\ UNCHANGED cpc
               /\ UNCHANGED <<stderr, exitCode>>
    /\ UNCHANGED <<registered, defaultTask, argv, helpFlag, taskMap, helpShown, helpTable, cerr,
                   interrupted, sigAt, hiddenTasks>>

\* one iteration of "for _, name := range args"
ResolveArg ==
    /\ UNCHANGED notCLI
    /\ cpc = "resolve"
    /\ LET name == argv[cidx]
       IN IF name \notin DOMAIN taskMap
          THEN /\ stderr' = Append(stderr, [msg |-> "unknown task", name |-> name])
               /\ Exit(1)
               /\ UNCHANGED <<tasksToRun, cidx>>
          ELSE /\ tasksToRun' = Append(tasksToRun, taskMap[name])
               /\ IF cidx = Len(argv)
                  THEN cpc' = "run" /\ cidx' = 1
                  ELSE cidx' = cidx + 1 /\ UNCHANGED cpc
               /\ UNCHANGED <<stderr, exitCode>>
    /\ UNCHANGED <<registered, defaultTask, argv, helpFlag, taskMap, helpShown, helpTable, ranLog,
                   conce, cerr, interrupted, sigAt, hiddenTasks>>

\* the goroutine waiting on sigCh calls cancel()
Signal ==
    /\ UNCHANGED notCLI
    /\ cpc = "run"
    /\ ~interrupted
    /\ interrupted' = TRUE
    /\ sigAt' = cidx
    /\ UNCHANGED <<registered, defaultTask, argv, helpFlag, taskMap, tasksToRun, cpc,
                   cidx, exitCode, stderr, helpShown, helpTable, ranLog, conce, cerr, hiddenTasks>>

CLIResults == {Nil, ActionFailed, Cancelled}

\* a loop that reports a failing task and goes on to the next one
RunTask_KeepGoing(r) ==
    /\ UNCHANGED notCLI
    /\ cpc = "run"
    /\ cidx <= Len(tasksToRun)
    /\ r = Cancelled => interrupted
    /\ LET t == tasksToRun[cidx]
           err == IF t \in conce THEN cerr[t] ELSE r
       IN /\ conce' = conce \cup {t}
          /\ ranLog' = IF t \in conce THEN ranLog ELSE Append(ranLog, t)
          /\ cerr' = [cerr EXCEPT ![t] = err]
          /\ stderr' = IF err # Nil
                       THEN Append(stderr, [msg |-> "task failed",
                                            name |-> registered[t], err |-> err])
                       ELSE stderr
          /\ cidx' = cidx + 1
          /\ UNCHANGED <<cpc, exitCode>>
    /\ UNCHANGED <<registered, defaultTask, argv, helpFlag, taskMap, tasksToRun,
                   helpShown, helpTable, interrupted, sigAt, hiddenTasks>>

\* one iteration of "for _, t := range tasksToRun": Run(ctx, t), the action
\* returning r if it is invoked
RunTask(r) ==
    /\ UNCHANGED notCLI
    /\ cpc = "run"
    /\ cidx <= Len(tasksToRun)
    /\ r = Cancelled => interrupted
    /\ LET t == tasksToRun[cidx]
           err == IF t \in conce THEN cerr[t] ELSE r
       IN /\ conce' = conce \cup {t}
          /\ ranLog' = IF t \in conce THEN ranLog ELSE Append(ranLog, t)
          /\ cerr' = [cerr EXCEPT ![t] = err]
          /\ IF err # Nil
             THEN /\ stderr' = Append(stderr, [msg |-> "task failed",
                                                name |-> registered[t], err |-> err])
                  /\ Exit(1)
                  /\ UNCHANGED cidx
             ELSE /\ cidx' = cidx + 1
                  /\ UNCHANGED <<stderr, cpc, exitCode>>
    /\ UNCHANGED <<registered, defaultTask, argv, helpFlag, taskMap, tasksToRun,
                   helpShown, helpTable, interrupted, sigAt, hiddenTasks>>

\* every task has run: return 0
RunReturns ==
    /\ UNCHANGED notCLI
    /\ cpc = "run"
    /\ cidx > Len(tasksToRun)
    /\ Exit(0)
    /\ UNCHANGED <<registered, defaultTask, argv, helpFlag, taskMap, tasksToRun, cidx,
                   stderr, helpShown, helpTable, ranLog, conce, cerr, interrupted, sigAt, hiddenTasks>>

NextCLI ==
    \/ ParseFlags
    \/ ResolveArg
    \/ Signal
    \/ \E r \in CLIResults : RunTask(r)
    \/ RunReturns

\* ------------------------------------------------------------------------
\* RunContext.ForEachPath: an action iterates over its paths while the
\* context it was handed may be cancelled by a signal or a failing sibling.
\* ------------------------------------------------------------------------
MaxPaths == 3

PathNames == {"svc/a", "svc/b", "."}

WithCtx == "funcdef.go"
WithoutCtx == "task.go"

InitPaths ==
    /\ fversion \in {WithCtx, WithoutCtx}
    /\ fpaths \in SeqsUpTo(PathNames, MaxPaths)
    /\ fidx = 1
    /\ fcancel = FALSE
    /\ fnCalls = <<>>
    /\ fnRets = <<>>
    /\ fret = "running"

\* the state of this part under the other specifications: nothing is run
IdlePaths ==
    /\ fversion = "" /\ fpaths = <<>> /\ fidx = 0 /\ fcancel = FALSE
    /\ fnCalls = <<>> /\ fret = "" /\ fnRets = <<>>

\* select { case <-ctx.Done(): return ctx.Err(); default: }; the ForEachPath
\* of task.go has no such statement
ctxDone(version, cancelled) == version = WithCtx /\ cancelled

\* a loop that remembers the error of fn and goes on to the next path
ForEachPathIter_KeepGoing(r) ==
    /\ UNCHANGED notPaths
    /\ fret = "running"
    /\ fidx <= Len(fpaths)
    /\ IF ctxDone(fversion, fcancel)
       THEN /\ fret' = Cancelled
            /\ UNCHANGED <<fnCalls, fnRets, fidx>>
       ELSE /\ fnCalls' = Append(fnCalls, fpaths[fidx])
            /\ fnRets' = Append(fnRets, r)
            /\ IF r # Nil /\ fidx = Len(fpaths)
               THEN fret' = r /\ UNCHANGED fidx
               ELSE fidx' = fidx + 1 /\ UNCHANGED fret
    /\ UNCHANGED <<fversion, fpaths, fcancel>>

\* one iteration of "for _, dir := range rc.Paths", fn returning r
ForEachPathIter(r) ==
    /\ UNCHANGED notPaths
    /\ fret = "running"
    /\ fidx <= Len(fpaths)
    /\ IF ctxDone(fversion, fcancel)
       THEN /\ fret' = Cancelled
            /\ UNCHANGED <<fnCalls, fnRets, fidx>>
       ELSE /\ fnCalls' = Append(fnCalls, fpaths[fidx])
            /\ fnRets' = Append(fnRets, r)
            /\ IF r # Nil
               THEN fret' = r /\ UNCHANGED fidx
               ELSE fidx' = fidx + 1 /\ UNCHANGED fret
    /\ UNCHANGED <<fversion, fpaths, fcancel>>

\* the loop is over: return nil
ForEachPathReturns ==
    /\ UNCHANGED notPaths
    /\ fret = "running"
    /\ fidx > Len(fpaths)
    /\ fret' = Nil
    /\ UNCHANGED <<fversion, fpaths, fidx, fcancel, fnCalls, fnRets>>

\* the context is cancelled while ForEachPath runs
CancelCtx ==
    /\ UNCHANGED notPaths
    /\ fret = "running"
    /\ ~fcancel
    /\ fcancel' = TRUE
    /\ UNCHANGED <<fversion, fpaths, fidx, fnCalls, fnRets, fret>>

NextPaths ==
    \/ \E r \in ActionResults : ForEachPathIter(r)
    \/ ForEachPathReturns
    \/ CancelCtx

\* ------------------------------------------------------------------------
\* A command run as a subprocess while its context may be cancelled.
\* pk.RunCommand builds the command with exec.Command; commandRunnable and
\* commandWithArgsRunnable build it with newCommand(ctx, ...), which starts
\* the subprocess with the cancellation handle: on cancellation the
\* subprocess is sent a terminate signal and, after a grace period, killed.
\* ------------------------------------------------------------------------
PkRunCommand == "pk.RunCommand"
CommandRunnable == "commandRunnable"
CommandWithArgsRunnable == "commandWithArgsRunnable"

CommandKinds == {PkRunCommand, CommandRunnable, CommandWithArgsRunnable}

CommandFailed == "CommandFailed"

ExitCodes == {0, 1, 2}

KilledStatus == 137

\* whether the subprocess is tied to the context: exec.Command takes none
startedWithCtx(kind) == kind # PkRunCommand

\* FromGitRoot(path), GitRoot()
FromGitRoot(path) == IF path = "" THEN "<root>" ELSE "<root>/" \o path

InitCommand ==
    /\ kversion \in CommandKinds
    /\ kpath \in {"", "svc/a", "svc/b"}
    /\ kdir = ""
    /\ kproc = "new"
    /\ ksig = "none"
    /\ kcancel = FALSE
    /\ kexit = -1
    /\ kret = "running"

\* the state of this part under the other specifications: nothing is run
IdleCommand ==
    /\ kversion = "" /\ kpath = "" /\ kdir = "" /\ kproc = "" /\ ksig = ""
    /\ kcancel = FALSE /\ kexit = -1 /\ kret = ""

\* cmd.Dir is set and the subprocess is started; a command tied to a context
\* that is already cancelled is not started
StartCommand ==
    /\ UNCHANGED notCommand
    /\ kproc = "new"
    /\ kret = "running"
    /\ kdir' = FromGitRoot(kpath)
    /\ IF startedWithCtx(kversion) /\ kcancel
       THEN kret' = Cancelled /\ UNCHANGED kproc
       ELSE kproc' = "running" /\ UNCHANGED kret
    /\ UNCHANGED <<kversion, kpath, ksig, kcancel, kexit>>

\* the subprocess ends by itself with an exit status
ProcExits(code) ==
    /\ UNCHANGED notCommand
    /\ kproc = "running"
    /\ kproc' = "exited"
    /\ kexit' = code
    /\ UNCHANGED <<kversion, kpath, kdir, ksig, kcancel, kret>>

\* the context of the command is cancelled
CancelCommand ==
    /\ UNCHANGED notCommand
    /\ kret = "running"
    /\ ~kcancel
    /\ kcancel' = TRUE
    /\ UNCHANGED <<kversion, kpath, kdir, kproc, ksig, kexit, kret>>

\* the context is done: the subprocess is sent the terminate signal
Terminate ==
    /\ UNCHANGED notCommand
    /\ startedWithCtx(kversion)
    /\ kcancel
    /\ kproc = "running"
    /\ ksig = "none"
    /\ ksig' = "term"
    /\ UNCHANGED <<kversion, kpath, kdir, kproc, kcancel, kexit, kret>>

\* the grace period is over and the subprocess still runs: it is killed
Kill ==
    /\ UNCHANGED notCommand
    /\ kproc = "running"
    /\ ksig = "term"
    /\ ksig' = "kill"
    /\ kproc' = "killed"
    /\ kexit' = KilledStatus
    /\ UNCHANGED <<kversion, kpath, kdir, kcancel, kret>>

\* cmd.Run() / cmd.CombinedOutput() returns: the subprocess has ended
CommandReturns ==
    /\ UNCHANGED notCommand
    /\ kret = "running"
    /\ kproc \in {"exited", "killed"}
    /\ kret' = IF kexit = 0 THEN Nil ELSE CommandFailed
    /\ UNCHANGED <<kversion, kpath, kdir, kproc, ksig, kcancel, kexit>>

NextCommand ==
    \/ StartCommand
    \/ \E code \in ExitCodes : ProcExits(code)
    \/ CancelCommand
    \/ Terminate
    \/ Kill
    \/ CommandReturns

\* ------------------------------------------------------------------------
\* The output of children that run concurrently. Under Deps each child
\* writes to the standard output of the process as it goes: Task.run prints
\* the header with fmt.Printf and the action writes what it writes. A
\* Parallel that buffers hands each child a copy of the RunContext with an
\* Output of its own (withOutput) and copies it to the parent sink when the
\* child has completed.
\* ------------------------------------------------------------------------
NumChildren == 2
MaxLines == 2

Children == 1..NumChildren

DirectOutput == "Deps"
BufferedOutput == "Parallel"

Line(c, k) == [child |-> c, line |-> k]

InitOutput ==
    /\ oversion \in {DirectOutput, BufferedOutput}
    /\ owritten = [c \in Children |-> 0]
    /\ obuf = [c \in Children |-> <<>>]
    /\ ofin = [c \in Children |-> FALSE]
    /\ oorder = <<>>
    /\ osink = <<>>

\* the state of this part under the other specifications: nothing is run
IdleOutput ==
    /\ oversion = "" /\ owritten = <<>> /\ obuf = <<>> /\ ofin = <<>>
    /\ oorder = <<>> /\ osink = <<>>

\* a child writes a line: the header of its task, or output of its action
ChildWrites(c) ==
    /\ UNCHANGED notOutput
    /\ ~ofin[c]
    /\ owritten[c] < MaxLines
    /\ owritten' = [owritten EXCEPT ![c] = @ + 1]
    /\ IF oversion = DirectOutput
       THEN /\ osink' = Append(osink, Line(c, owritten[c] + 1))
            /\ UNCHANGED obuf
       ELSE /\ obuf' = [obuf EXCEPT ![c] = Append(@, Line(c, owritten[c] + 1))]
            /\ UNCHANGED osink
    /\ UNCHANGED <<oversion, ofin, oorder>>

\* a child completes; a buffered child has its output copied to the parent
\* sink as one block
ChildCompletes(c) ==
    /\ UNCHANGED notOutput
    /\ ~ofin[c]
    /\ ofin' = [ofin EXCEPT ![c] = TRUE]
    /\ oorder' = Append(oorder, c)
    /\ osink' = osink \o obuf[c]
    /\ obuf' = [obuf EXCEPT ![c] = <<>>]
    /\ UNCHANGED <<oversion, owritten>>

NextOutput ==
    \/ \E c \in Children : ChildWrites(c)
    \/ \E c \in Children : ChildCompletes(c)

\* ------------------------------------------------------------------------
\* The task export: CollectTasks walks the Runnable with funcs() and makes a
\* TaskInfo of every FuncDef it is handed. The trees are the chains of the
\* collect phase; they hold no path filter, so every task gets the path ".".
\* ------------------------------------------------------------------------
\* FuncDef.funcs, and the funcs of the leaves, which return nil
RECURSIVE funcs(_)
funcs(r) ==
    IF r = <<>> THEN <<>>
    ELSE IF Head(r).type = "func"
    THEN (IF ~Head(r).hidden THEN <<Head(r)>> ELSE <<>>) \o funcs(Tail(r))
    ELSE <<>>

TaskInfo(f) == [name |-> f.name, hidden |-> f.hidden, paths |-> <<".">>]

CollectTasks(r) ==
    IF r = <<>> THEN <<>>
    ELSE [i \in 1..Len(funcs(r)) |-> TaskInfo(funcs(r)[i])]

InitExport ==
    /\ etree \in Runnables \cup {<<>>}
    /\ exported = [done |-> FALSE, tasks |-> <<>>]

\* the state of this part under the other specifications: nothing is run
IdleExport == etree = <<>> /\ exported = <<>>

\* tasks := CollectTasks(r)
Export ==
    /\ UNCHANGED notExport
    /\ ~exported.done
    /\ exported' = [done |-> TRUE, tasks |-> CollectTasks(etree)]
    /\ UNCHANGED etree

NextExport == Export

\* ------------------------------------------------------------------------
\* The JSON of the export: ExportJSON marshals the []TaskInfo of
\* CollectTasks, and a consumer parses the document into a []TaskInfo. A
\* string is a sequence of characters; a slice is nil or holds elements.
\* ------------------------------------------------------------------------
MaxTasks == 2

NilSlice == [isNil |-> TRUE, elems |-> <<>>]
MakeSlice(s) == [isNil |-> FALSE, elems |-> s]

\* task names, and usage texts with the characters JSON escapes
TaskNameStrings == {<<"l">>, <<"t", "\"">>}
UsageStrings == {<<>>, <<"\"", "a">>, <<"\\", "\"">>}
PathSlices ==
    {NilSlice, MakeSlice(<<>>), MakeSlice(<<<<".">>, <<"s", "\\">>>>)}

\* type TaskInfo struct { Name; Usage; Paths; Hidden }
TaskInfos ==
    [Name : TaskNameStrings, Usage : UsageStrings, Paths : PathSlices,
     Hidden : BOOLEAN]

RECURSIVE TaskInfoLists(_)
TaskInfoLists(n) ==
    IF n = 0 THEN {<<>>}
    ELSE TaskInfoLists(n - 1) \cup
         {l \o <<t>> : l \in {x \in TaskInfoLists(n - 1) : Len(x) = n - 1},
                       t \in TaskInfos}

\* EscapeString with the escaping left out
EscapeString_Raw(str) == str

\* a string value of the document: a quote and a backslash are written
\* behind a backslash
RECURSIVE EscapeString(_)
EscapeString(str) ==
    IF str = <<>> THEN <<>>
    ELSE (IF Head(str) \in {"\"", "\\"} THEN <<"\\", Head(str)>>
          ELSE <<Head(str)>>) \o EscapeString(Tail(str))

\* the character behind a backslash is taken as it is
RECURSIVE UnescapeString(_)
UnescapeString(txt) ==
    IF txt = <<>> THEN <<>>
    ELSE IF Head(txt) = "\\" /\ Len(txt) >= 2
    THEN <<txt[2]>> \o UnescapeString(Tail(Tail(txt)))
    ELSE <<Head(txt)>> \o UnescapeString(Tail(txt))

\* `json:"paths,omitempty"`: a slice of length 0, nil or not, is left out
PathsMember(paths) ==
    IF Len(paths.elems) = 0 THEN [present |-> FALSE, items |-> <<>>]
    ELSE [present |-> TRUE,
          items |-> [i \in 1..Len(paths.elems) |-> EscapeString(paths.elems[i])]]

\* `json:"hidden,omitempty"`: false is left out
HiddenMember(hidden) == [present |-> hidden, value |-> hidden]

\* the object written for one TaskInfo
MarshalTaskInfo(t) ==
    [name |-> EscapeString(t.Name), usage |-> EscapeString(t.Usage),
     paths |-> PathsMember(t.Paths), hidden |-> HiddenMember(t.Hidden)]

\* json.MarshalIndent(tasks, "", "  "): null for a nil slice, or the array
\* of the objects
MarshalIndent(tasks) ==
    IF tasks.isNil THEN [kind |-> "null", items |-> <<>>]
    ELSE [kind |-> "array",
          items |-> [i \in 1..Len(tasks.elems) |-> MarshalTaskInfo(tasks.elems[i])]]

\* a member the object lacks leaves the field at its zero value
UnmarshalTaskInfo(o) ==
    [Name |-> UnescapeString(o.name), Usage |-> UnescapeString(o.usage),
     Paths |-> IF o.paths.present
               THEN MakeSlice([i \in 1..Len(o.paths.items) |->
                                  UnescapeString(o.paths.items[i])])
               ELSE NilSlice,
     Hidden |-> o.hidden.present /\ o.hidden.value]

\* json.Unmarshal(data, &tasks) into a nil []TaskInfo
Unmarshal(doc) ==
    IF doc.kind = "null" THEN NilSlice
    ELSE MakeSlice([i \in 1..Len(doc.items) |-> UnmarshalTaskInfo(doc.items[i])])

InitJson ==
    /\ jtasks \in {NilSlice} \cup {MakeSlice(l) : l \in TaskInfoLists(MaxTasks)}
    /\ jbytes = [done |-> FALSE, doc |-> MarshalIndent(NilSlice)]
    /\ jparsed = [done |-> FALSE, tasks |-> NilSlice]

\* the state of this part under the other specifications: nothing is run
IdleJson == jtasks = NilSlice /\ jbytes = <<>> /\ jparsed = <<>>

\* return json.MarshalIndent(tasks, "", "  ")
ExportJSON ==
    /\ UNCHANGED notJson
    /\ ~jbytes.done
    /\ jbytes' = [done |-> TRUE, doc |-> MarshalIndent(jtasks)]
    /\ UNCHANGED <<jtasks, jparsed>>

\* the consumer of the export parses the document
ParseJSON ==
    /\ UNCHANGED notJson
    /\ jbytes.done
    /\ ~jparsed.done
    /\ jparsed' = [done |-> TRUE, tasks |-> Unmarshal(jbytes.doc)]
    /\ UNCHANGED <<jtasks, jbytes>>

NextJson == ExportJSON \/ ParseJSON

\* ------------------------------------------------------------------------
\* Task definitions: *Task of the registry generation and *FuncDef, with
\* the methods that derive one definition from another. Every method does
\* cp := *recv, sets one field of cp and returns &cp.
\* ------------------------------------------------------------------------
MaxDefs == 4

NoOptions == "nil"
\* an options struct inspectArgs accepts, and one it rejects
GoodOptions == "DeployOptions"
BadOptions == "chan int"
OptionValues == {NoOptions, GoodOptions, BadOptions}

\* the names and usage texts handed to WithName and WithUsage
NewNames == {"", "integration-test"}
NewUsages == {"", "run integration tests"}

\* NewTask(name, usage, action)
NewTask(name, usage) ==
    [kind |-> "Task", name |-> name, usage |-> usage, opts |-> NoOptions,
     hidden |-> FALSE, builtin |-> FALSE]

\* Func(name, usage, body)
Func(name, usage) ==
    [kind |-> "FuncDef", name |-> name, usage |-> usage, opts |-> NoOptions,
     hidden |-> FALSE, builtin |-> FALSE]

TaskDefs == {i \in 1..Len(heap) : heap[i].kind = "Task"}
FuncDefPtrs == {i \in 1..Len(heap) : heap[i].kind = "FuncDef"}

InitDefs ==
    /\ heap = <<NewTask("lint", "lint code"), Func("fmt", "format code")>>
    /\ lastRecv = 0
    /\ lastNew = 0
    /\ panicked = FALSE

\* the state of this part under the other specifications: nothing is run
IdleDefs == heap = <<>> /\ lastRecv = 0 /\ lastNew = 0 /\ panicked = FALSE

\* the receiver changed in place and returned
ReturnCopy_InPlace(recv, cp) ==
    /\ heap' = [heap EXCEPT ![recv] = cp]
    /\ lastRecv' = recv
    /\ lastNew' = recv
    /\ UNCHANGED panicked

\* cp := *recv; cp.<field> = value; return &cp
ReturnCopy(recv, cp) ==
    /\ heap' = Append(heap, cp)
    /\ lastRecv' = recv
    /\ lastNew' = Len(heap) + 1
    /\ UNCHANGED panicked

Panic(recv) ==
    /\ panicked' = TRUE
    /\ lastRecv' = recv
    /\ lastNew' = 0
    /\ UNCHANGED heap

CanCall == ~panicked /\ Len(heap) < MaxDefs

WithOptions(t, opts) ==
    /\ UNCHANGED notDefs
    /\ CanCall
    /\ IF opts # NoOptions /\ opts = BadOptions
       THEN Panic(t)
       ELSE ReturnCopy(t, [heap[t] EXCEPT !.opts = opts])

AsHidden(t) ==
    /\ UNCHANGED notDefs
    /\ CanCall
    /\ ReturnCopy(t, [heap[t] EXCEPT !.hidden = TRUE])

AsBuiltin(t) ==
    /\ UNCHANGED notDefs
    /\ CanCall
    /\ ReturnCopy(t, [heap[t] EXCEPT !.builtin = TRUE])

With(f, opts) ==
    /\ UNCHANGED notDefs
    /\ CanCall
    /\ ReturnCopy(f, [heap[f] EXCEPT !.opts = opts])

Hidden(f) ==
    /\ UNCHANGED notDefs
    /\ CanCall
    /\ ReturnCopy(f, [heap[f] EXCEPT !.hidden = TRUE])

WithName(f, name) ==
    /\ UNCHANGED notDefs
    /\ CanCall
    /\ IF name = ""
       THEN Panic(f)
       ELSE ReturnCopy(f, [heap[f] EXCEPT !.name = name])

WithUsage(f, usage) ==
    /\ UNCHANGED notDefs
    /\ CanCall
    /\ IF usage = ""
       THEN Panic(f)
       ELSE ReturnCopy(f, [heap[f] EXCEPT !.usage = usage])

NextDefs ==
    \/ \E t \in TaskDefs : \E opts \in OptionValues : WithOptions(t, opts)
    \/ \E t \in TaskDefs : AsHidden(t)
    \/ \E t \in TaskDefs : AsBuiltin(t)
    \/ \E f \in FuncDefPtrs : \E opts \in OptionValues : With(f, opts)
    \/ \E f \in FuncDefPtrs : Hidden(f)
    \/ \E f \in FuncDefPtrs : \E name \in NewNames : WithName(f, name)
    \/ \E f \in FuncDefPtrs : \E usage \in NewUsages : WithUsage(f, usage)

\* ------------------------------------------------------------------------
\* The action of the "all" task made by tasks.New: SerialDeps on generate,
\* SerialDeps on the orchestrators, Deps on the custom tasks, and SerialDeps
\* on git-diff unless cfg.SkipGitDiff. No task has run before in the
\* process, so every task.run called here executes its action.
\* ------------------------------------------------------------------------
MaxGroups == 2
MaxCustom == 2

Generate == "generate"
GitDiff == "git-diff"
OrchestratorNames == [i \in 1..MaxGroups |-> <<"group-all", i>>]
CustomNames == [i \in 1..MaxCustom |-> <<"custom", i>>]
AllTaskNames ==
    {<<Generate>>, <<GitDiff>>} \cup {OrchestratorNames[i] : i \in 1..MaxGroups}
        \cup {CustomNames[i] : i \in 1..MaxCustom}

InitAll ==
    /\ skipGitDiff \in BOOLEAN
    /\ orchestrators \in {SubSeq(OrchestratorNames, 1, n) : n \in 0..MaxGroups}
    /\ customTasks \in {SubSeq(CustomNames, 1, n) : n \in 0..MaxCustom}
    /\ astate = [t \in AllTaskNames |-> "new"]
    /\ apc = "generate"
    /\ aidx = 1
    /\ agerr = Unset
    /\ aret = "running"

\* the state of this part under the other specifications: nothing is run
IdleAll ==
    /\ skipGitDiff = FALSE /\ orchestrators = <<>> /\ customTasks = <<>>
    /\ astate = <<>> /\ apc = "" /\ aidx = 0 /\ agerr = Unset /\ aret = ""

\* the action of "all" returns err
AllReturns(err) ==
    /\ apc' = "done"
    /\ aret' = err

\* an action that goes on to git-diff whatever came before
AfterTasks_AlwaysDiff(err, skip) == "gitdiff"

\* if err := pocket.Deps(ctx, t.Tasks...); err != nil { return err }
\* if !cfg.SkipGitDiff { return pocket.SerialDeps(ctx, t.GitDiff) }
\* return nil
AfterTasks(err, skip) ==
    IF err # Nil THEN "done" ELSE IF ~skip THEN "gitdiff" ELSE "done"

\* the task the loop of the SerialDeps at hand is at
SerialTask ==
    CASE apc = "generate" -> <<Generate>>
      [] apc = "orchestrators" -> orchestrators[aidx]
      [] apc = "gitdiff" -> <<GitDiff>>

\* task.run(ctx) in a SerialDeps: the action of the task starts
SerialStart ==
    /\ UNCHANGED notAll
    /\ apc \in {"generate", "orchestrators", "gitdiff"}
    /\ astate[SerialTask] = "new"
    /\ astate' = [astate EXCEPT ![SerialTask] = "running"]
    /\ UNCHANGED <<skipGitDiff, orchestrators, customTasks, apc, aidx, agerr, aret>>

\* the action returns r to SerialDeps: it returns the error, or goes on to
\* its next task, or returns nil and the action of "all" goes on
SerialEnd(r) ==
    /\ UNCHANGED notAll
    /\ apc \in {"generate", "orchestrators", "gitdiff"}
    /\ astate[SerialTask] = "running"
    /\ astate' = [astate EXCEPT ![SerialTask] = IF r = Nil THEN "ok" ELSE "failed"]
    /\ IF r # Nil
       THEN AllReturns(r) /\ UNCHANGED aidx
       ELSE CASE apc = "generate" ->
                   /\ apc' = IF Len(orchestrators) > 0 THEN "orchestrators" ELSE "tasks"
                   /\ aidx' = 1
                   /\ UNCHANGED aret
              [] apc = "orchestrators" ->
                   /\ apc' = IF aidx < Len(orchestrators) THEN "orchestrators" ELSE "tasks"
                   /\ aidx' = IF aidx < Len(orchestrators) THEN aidx + 1 ELSE 1
                   /\ UNCHANGED aret
              [] apc = "gitdiff" ->
                   /\ AllReturns(Nil)
                   /\ UNCHANGED aidx
    /\ UNCHANGED <<skipGitDiff, orchestrators, customTasks, agerr>>

\* Deps: the goroutine of a custom task runs task.run(ctx)
CustomStart(i) ==
    /\ UNCHANGED notAll
    /\ apc = "tasks"
    /\ i \in 1..Len(customTasks)
    /\ astate[customTasks[i]] = "new"
    /\ astate' = [astate EXCEPT ![customTasks[i]] = "running"]
    /\ UNCHANGED <<skipGitDiff, orchestrators, customTasks, apc, aidx, agerr, aret>>

\* the action of a custom task returns r; the errgroup keeps the first error
CustomEnd(i, r) ==
    /\ UNCHANGED notAll
    /\ apc = "tasks"
    /\ i \in 1..Len(customTasks)
    /\ astate[customTasks[i]] = "running"
    /\ astate' = [astate EXCEPT ![customTasks[i]] = IF r = Nil THEN "ok" ELSE "failed"]
    /\ agerr' = errOnce(agerr, r)
    /\ UNCHANGED <<skipGitDiff, orchestrators, customTasks, apc, aidx, aret>>

\* Deps returns (g.Wait(), or nil at once without tasks) and the action of
\* "all" returns the error, goes on to git-diff or returns nil
DepsReturns ==
    /\ UNCHANGED notAll
    /\ apc = "tasks"
    /\ \A i \in 1..Len(customTasks) : astate[customTasks[i]] \in {"ok", "failed"}
    /\ LET err == IF agerr = Unset THEN Nil ELSE agerr
           nxt == AfterTasks(err, skipGitDiff)
       IN IF nxt = "done"
          THEN AllReturns(err)
          ELSE /\ apc' = nxt
               /\ UNCHANGED aret
    /\ UNCHANGED <<skipGitDiff, orchestrators, customTasks, astate, aidx, agerr>>

NextAll ==
    \/ SerialStart
    \/ \E r \in {Nil, ActionFailed} : SerialEnd(r)
    \/ \E i \in 1..MaxCustom : CustomStart(i)
    \/ \E i \in 1..MaxCustom : \E r \in {Nil, ActionFailed} : CustomEnd(i, r)
    \/ DepsReturns

\* ------------------------------------------------------------------------
\* NewTaskGroup(name, tasks...) and the action of the orchestrator it adds.
\* A task is a pointer: an index into GroupTasks; 0 is nil and Orchestrator
\* is the task NewTaskGroup allocates. No task has run before in the
\* process.
\* ------------------------------------------------------------------------
MaxGiven == 3

GroupNames == {"go", "markdown"}

\* the tasks a group is made of; the last one is hidden
GroupTasks ==
    <<[Name |-> <<"format">>, Hidden |-> FALSE],
      [Name |-> <<"lint">>, Hidden |-> FALSE],
      [Name |-> <<"install">>, Hidden |-> TRUE]>>

NilTask == 0
Orchestrator == Len(GroupTasks) + 1

\* allTask := &Task{Name: name + "-all", ..., Hidden: true, Action: ...}
allTask(name) == [Name |-> <<name, "-all">>, Hidden |-> TRUE]

\* the task a pointer of the group points to
Deref(ptr) ==
    IF ptr = Orchestrator THEN allTask(gname) ELSE GroupTasks[ptr]

\* append(tasks, allTask): within the capacity the element is written to
\* the array of tasks, beyond it a new array is allocated
AppendSlice(arr, len, elem) ==
    IF len < Len(arr)
    THEN [shared |-> TRUE, array |-> [arr EXCEPT ![len + 1] = elem], len |-> len + 1]
    ELSE [shared |-> FALSE, array |-> SubSeq(arr, 1, len) \o <<elem>>, len |-> len + 1]

InitGroup ==
    /\ gname \in GroupNames
    /\ given \in SeqsUpTo(0..Len(GroupTasks), MaxGiven)
    /\ carray \in {given, given \o <<NilTask>>}
    /\ group = [made |-> FALSE, tasks |-> <<>>, shared |-> FALSE]
    /\ gstate = [t \in 1..Orchestrator |-> "new"]
    /\ gpc = "new"
    /\ gidx = 1
    /\ glog = <<>>
    /\ gret = "running"

\* the state of this part under the other specifications: nothing is run
IdleGroup ==
    /\ gname = "" /\ given = <<>> /\ carray = <<>> /\ group = <<>>
    /\ gstate = <<>> /\ gpc = "" /\ gidx = 0 /\ glog = <<>> /\ gret = ""

\* return &TaskGroup{name: name, tasks: append(tasks, allTask)}
NewTaskGroup ==
    /\ UNCHANGED notGroup
    /\ ~group.made
    /\ LET app == AppendSlice(carray, Len(given), Orchestrator)
       IN /\ group' = [made |-> TRUE, tasks |-> SubSeq(app.array, 1, app.len),
                       shared |-> app.shared]
          /\ carray' = IF app.shared THEN app.array ELSE carray
    /\ UNCHANGED <<gname, given, gstate, gpc, gidx, glog, gret>>

\* g.Tasks()
GroupTasksOf == group.tasks

\* the orchestrator is run: its action calls SerialDeps(ctx, tasks...)
RunOrchestrator ==
    /\ UNCHANGED notGroup
    /\ group.made
    /\ gstate[Orchestrator] = "new"
    /\ gstate' = [gstate EXCEPT ![Orchestrator] = "running"]
    /\ glog' = Append(glog, Orchestrator)
    /\ gpc' = "loop"
    /\ gidx' = 1
    /\ UNCHANGED <<gname, given, carray, group, gret>>

\* a SerialDeps that walks the tasks from the last to the first
LoopTask_Backwards(tasks, idx) == tasks[Len(tasks) + 1 - idx]

\* for _, task := range tasks
LoopTask(tasks, idx) == tasks[idx]

\* one iteration of the loop of SerialDeps up to the start of an action: a
\* nil task and a task that has run with nil are passed, the error of a task
\* that has run is returned, the action of a new task starts; after the
\* last task SerialDeps returns nil
GroupSerialStep ==
    /\ UNCHANGED notGroup
    /\ gpc = "loop"
    /\ IF gidx > Len(given)
       THEN /\ gpc' = "done"
            /\ gret' = Nil
            /\ gstate' = [gstate EXCEPT ![Orchestrator] = "ok"]
            /\ UNCHANGED <<gidx, glog>>
       ELSE LET task == LoopTask(given, gidx)
            IN IF task = NilTask \/ gstate[task] = "ok"
               THEN /\ gidx' = gidx + 1
                    /\ UNCHANGED <<gpc, gret, gstate, glog>>
               ELSE IF gstate[task] = "failed"
               THEN /\ gpc' = "done"
                    /\ gret' = ActionFailed
                    /\ gstate' = [gstate EXCEPT ![Orchestrator] = "failed"]
                    /\ UNCHANGED <<gidx, glog>>
               ELSE /\ gstate' = [gstate EXCEPT ![task] = "running"]
                    /\ glog' = Append(glog, task)
                    /\ gpc' = "action"
                    /\ UNCHANGED <<gidx, gret>>
    /\ UNCHANGED <<gname, given, carray, group>>

\* the action of the task returns r: if err := task.run(ctx); err != nil {
\* return err }
GroupActionReturns(r) ==
    /\ UNCHANGED notGroup
    /\ gpc = "action"
    /\ LET task == LoopTask(given, gidx)
       IN IF r # Nil
          THEN /\ gstate' = [gstate EXCEPT ![task] = "failed", ![Orchestrator] = "failed"]
               /\ gpc' = "done"
               /\ gret' = r
               /\ UNCHANGED gidx
          ELSE /\ gstate' = [gstate EXCEPT ![task] = "ok"]
               /\ gpc' = "loop"
               /\ gidx' = gidx + 1
               /\ UNCHANGED gret
    /\ UNCHANGED <<gname, given, carray, group, glog>>

NextGroup ==
    \/ NewTaskGroup
    \/ RunOrchestrator
    \/ GroupSerialStep
    \/ \E r \in {Nil, ActionFailed} : GroupActionReturns(r)

Init == InitRun /\ IdleDeps /\ IdleCollect /\ IdleScope /\ IdleCLI /\ IdlePaths /\ IdleCommand /\ IdleOutput /\ IdleExport /\ IdleJson /\ IdleDefs /\ IdleAll /\ IdleGroup

Next == \E p \in Callers : RunStep(p)

Spec == Init /\ [][Next]_vars

\* The actions are free to fail in two ways: with an error of their own or
\* with the error of the context.
NextErrs ==
    \/ Next
    \/ \E p \in Callers : ActionReturn(p, Cancelled)

SpecErrs == Init /\ [][NextErrs]_vars

\* A single caller: every Run call returns before the next one is made.
NextSeq == RunStep(1)

SpecSeq == Init /\ [][NextSeq]_vars

\* a new execution that is handed the registry of the one before
newExecutionDone_Stale == done

\* newExecution: empty maps
newExecutionDone == [n \in Names |-> FALSE]

newExecutionErrors == [n \in Names |-> Nil]

\* The tree has returned and the same root is run once more in the same
\* process: NewRunContext makes a new execution state, the setup is the same.
NewExecution ==
    /\ UNCHANGED notRun
    /\ \A p \in Callers : pc[p] = "idle"
    /\ prior.execNo = 1
    /\ calls > 0
    /\ prior' = [execNo |-> 2, invoked |-> invoked, returns |-> returns]
    /\ done' = newExecutionDone
    /\ errors' = newExecutionErrors
    /\ calls' = 0
    /\ invoked' = [t \in Tasks |-> 0]
    /\ actionPaths' = [t \in Tasks |-> <<>>]
    /\ results' = [t \in Tasks |-> {}]
    /\ returns' = [t \in Tasks |-> 0]
    /\ out' = <<>>
    /\ UNCHANGED <<taskPaths, skipRules, taskArgs, pc, cur, pend, retv>>

NextTwice ==
    \/ RunStep(1)
    \/ NewExecution

SpecTwice == Init /\ [][NextTwice]_vars

\* A single caller again, and the tree also holds the copy of a task.
NextCopy ==
    \/ RunStep(1)
    \/ CallRun(1, LintCopy)

SpecCopy == Init /\ [][NextCopy]_vars

\* the state of the registry part under the other specifications
IdleRun ==
    /\ taskPaths = <<>> /\ skipRules = <<>> /\ taskArgs = <<>> /\ done = <<>>
    /\ errors = <<>> /\ pc = <<>> /\ cur = <<>> /\ pend = <<>> /\ retv = <<>>
    /\ calls = 0 /\ invoked = <<>> /\ actionPaths = <<>> /\ results = <<>>
    /\ returns = <<>> /\ out = <<>> /\ prior = <<>>

InitD == InitDeps /\ IdleRun /\ IdleCollect /\ IdleScope /\ IdleCLI /\ IdlePaths /\ IdleCommand /\ IdleOutput /\ IdleExport /\ IdleJson /\ IdleDefs /\ IdleAll /\ IdleGroup

SpecDeps == InitD /\ [][NextDeps]_vars

\* Every goroutine keeps being scheduled and every action of a task
\* returns; the signal is free never to arrive.
SpecDepsLive ==
    /\ SpecDeps
    /\ \A s \in Nodes : WF_vars(SerialStep(s))
    /\ \A s \in Nodes : WF_vars(DepsSpawn(s))
    /\ \A s \in Nodes : WF_vars(DepsWait(s))
    /\ \A s \in Nodes : \A j \in 1..Cardinality(DepTasks) :
           WF_vars(j \in Sites(s) /\ (DepsGo(s, j) \/ DepsReport(s, j) \/ WaitResume(s, j)))
    /\ \A t \in DepTasks : WF_vars(\E r \in {Nil, ActionFailed, Cancelled} : LeafReturn(t, r))

InitC == InitCollect /\ IdleRun /\ IdleDeps /\ IdleScope /\ IdleCLI /\ IdlePaths /\ IdleCommand /\ IdleOutput /\ IdleExport /\ IdleJson /\ IdleDefs /\ IdleAll /\ IdleGroup

SpecCollect == InitC /\ [][NextCollect]_vars

\* The Runnable may be run again in the same execution context.
NextAgain ==
    \/ NextCollect
    \/ RunAgain

SpecAgain == InitC /\ [][NextAgain]_vars

InitS == InitScope /\ IdleRun /\ IdleDeps /\ IdleCollect /\ IdleCLI /\ IdlePaths /\ IdleCommand /\ IdleOutput /\ IdleExport /\ IdleJson /\ IdleDefs /\ IdleAll /\ IdleGroup

SpecScope == InitS /\ [][NextScope]_vars

InitM == InitCLI /\ IdleRun /\ IdleDeps /\ IdleCollect /\ IdleScope /\ IdlePaths /\ IdleCommand /\ IdleOutput /\ IdleExport /\ IdleJson /\ IdleDefs /\ IdleAll /\ IdleGroup

SpecCLI == InitM /\ [][NextCLI]_vars

InitP == InitPaths /\ IdleRun /\ IdleDeps /\ IdleCollect /\ IdleScope /\ IdleCLI /\ IdleCommand /\ IdleOutput /\ IdleExport /\ IdleJson /\ IdleDefs /\ IdleAll /\ IdleGroup

SpecPaths == InitP /\ [][NextPaths]_vars

InitO == InitOutput /\ IdleRun /\ IdleDeps /\ IdleCollect /\ IdleScope /\ IdleCLI /\ IdlePaths /\ IdleCommand /\ IdleExport /\ IdleJson /\ IdleDefs /\ IdleAll /\ IdleGroup

SpecOutput == InitO /\ [][NextOutput]_vars

InitE == InitExport /\ IdleRun /\ IdleDeps /\ IdleCollect /\ IdleScope /\ IdleCLI /\ IdlePaths /\ IdleCommand /\ IdleOutput /\ IdleJson /\ IdleDefs /\ IdleAll /\ IdleGroup

SpecExport == InitE /\ [][NextExport]_vars

InitJ == InitJson /\ IdleRun /\ IdleDeps /\ IdleCollect /\ IdleScope /\ IdleCLI /\ IdlePaths /\ IdleCommand /\ IdleOutput /\ IdleExport /\ IdleDefs /\ IdleAll /\ IdleGroup

SpecJson == InitJ /\ [][NextJson]_vars

InitF == InitDefs /\ IdleRun /\ IdleDeps /\ IdleCollect /\ IdleScope /\ IdleCLI /\ IdlePaths /\ IdleCommand /\ IdleOutput /\ IdleExport /\ IdleJson /\ IdleAll /\ IdleGroup

SpecDefs == InitF /\ [][NextDefs]_vars

InitA == InitAll /\ IdleRun /\ IdleDeps /\ IdleCollect /\ IdleScope /\ IdleCLI /\ IdlePaths /\ IdleCommand /\ IdleOutput /\ IdleExport /\ IdleJson /\ IdleDefs /\ IdleGroup

SpecAll == InitA /\ [][NextAll]_vars

InitG == InitGroup /\ IdleRun /\ IdleDeps /\ IdleCollect /\ IdleScope /\ IdleCLI /\ IdlePaths /\ IdleCommand /\ IdleOutput /\ IdleExport /\ IdleJson /\ IdleDefs /\ IdleAll

SpecGroup == InitG /\ [][NextGroup]_vars

InitK == InitCommand /\ IdleRun /\ IdleDeps /\ IdleCollect /\ IdleScope /\ IdleCLI /\ IdlePaths /\ IdleOutput /\ IdleExport /\ IdleJson /\ IdleDefs /\ IdleAll /\ IdleGroup

SpecCommand == InitK /\ [][NextCommand]_vars

\* The run of the command and the goroutine that watches the context keep
\* going; the subprocess is free never to end by itself.
SpecCommandLive ==
    /\ SpecCommand
    /\ WF_vars(StartCommand)
    /\ WF_vars(Terminate)
    /\ WF_vars(Kill)
    /\ WF_vars(CommandReturns)

\* ------------------------------------------------------------------------
\* Claims about Task.Run and the dedup registry
\* ------------------------------------------------------------------------
Quiescent == \A p \in Callers : pc[p] = "idle"

Reached(t) == returns[t] > 0

\* Skip rules read off the rule list directly: rule (t, star) and rule (t, p).
RuleNamesAll(t) ==
    \E i \in 1..Len(skipRules) :
        skipRules[i].taskName = Name(t) /\ skipRules[i].paths = <<>>

RuleNamesPath(t, path) ==
    \E i \in 1..Len(skipRules) :
        /\ skipRules[i].taskName = Name(t)
        /\ \E j \in 1..Len(skipRules[i].paths) : skipRules[i].paths[j] = path

DeclaredPaths(t) ==
    IF taskPaths[Name(t)] = <<>> THEN {Cwd}
    ELSE {taskPaths[Name(t)][i] : i \in 1..Len(taskPaths[Name(t)])}

EveryPathSkipped(t) == \A path \in DeclaredPaths(t) : RuleNamesPath(t, path)

FlagsFail(t) == taskArgs[Name(t)] = "invalid"

\* C1: when two branches call Run on the same task concurrently, the action
\* is invoked once only: the two callers are never both inside the action and
\* the invocation count never exceeds one.
C1_InvokedOnceUnderConcurrency ==
    \A t \in Tasks :
        /\ invoked[t] <= 1
        /\ \A p, q \in Callers :
               (p # q /\ cur[p] = t /\ cur[q] = t /\ pc[p] = "action")
                   => pc[q] # "action"

\* C2: for a sequence of Run calls on one task (each call returns before the
\* next is made) the action is invoked at most once, and once a call has
\* returned no later call gets past the registry lookup.
C2_SequentialAtMostOnce ==
    \A t \in Tasks :
        /\ invoked[t] <= 1
        /\ returns[t] >= 1 =>
               \A p \in Callers : cur[p] = t => pc[p] \in {"idle", "isDone"}

\* C2 witness: a second Run call on a task whose action ran has returned.
C2_Witness == \E t \in Tasks : returns[t] >= 2 /\ invoked[t] = 1

\* C3: all callers of Run for one task receive the same value, and it is the
\* value recorded in the registry.
C3_IdenticalResults ==
    \A t \in Tasks :
        /\ Cardinality(results[t]) <= 1
        /\ (done[Name(t)] /\ results[t] # {}) => results[t] = {errors[Name(t)]}

DeclaredSeq(t) == IF taskPaths[Name(t)] = <<>> THEN <<Cwd>> ELSE taskPaths[Name(t)]

\* C13: the paths handed to the action are the task's paths (the cwd when it
\* has none) without the paths a skip rule of the task names, in their
\* original order; none of them is named by a rule (t, p) or (t, star).
C13_ActionPathsFiltered ==
    \A t \in Tasks : invoked[t] > 0 =>
        LET Live(path) == ~(RuleNamesAll(t) \/ RuleNamesPath(t, path))
        IN /\ actionPaths[t] = SelectSeq(DeclaredSeq(t), Live)
           /\ \A i \in 1..Len(actionPaths[t]) : Live(actionPaths[t][i])

\* C13 witness: an action was invoked with some, not all, of the task's paths
\* removed by a skip rule.
C13_Witness ==
    \E t \in Tasks :
        /\ invoked[t] > 0
        /\ Len(actionPaths[t]) >= 1
        /\ Len(actionPaths[t]) < Len(DeclaredSeq(t))

\* C14: once a Run of a task has returned at the global skip check, the task
\* is done: no later Run of it in the execution invokes its action.
C14_GlobalSkipCommitted ==
    [][\A t \in Names : skipReturns[t] > 0 => tcalls'[t] = tcalls[t]]_vars

\* C15: when path rules remove every path of a task (and no global rule
\* stops Run earlier), Run writes the header "=== name (skipped)" and no other
\* header, does not invoke the action, records the task as done without an
\* error and returns nil.
C15_AllPathsSkipped ==
    \A t \in Tasks : (EveryPathSkipped(t) /\ ~RuleNamesAll(t)) =>
        /\ invoked[t] = 0
        /\ \A i \in 1..Len(out) : out[i].name = Name(t) => out[i].note = "skipped"
        /\ returns[t] > 0 =>
               /\ done[Name(t)]
               /\ errors[Name(t)] = Nil
               /\ results[t] = {Nil}
               /\ \E i \in 1..Len(out) :
                      out[i] = [name |-> Name(t), note |-> "skipped", paths |-> <<>>]

\* C15 witness: a Run of a task with every path removed has returned.
C15_Witness ==
    \E t \in Tasks :
        /\ EveryPathSkipped(t) /\ ~RuleNamesAll(t)
        /\ returns[t] > 0
        /\ done[Name(t)]

\* C16: the rules active in a scope include every rule that is active in the
\* scopes around it: entering a scope never loses a rule.
C16_ScopeAugmentsRules ==
    \A i, j \in 1..Len(scopes) : i < j =>
        \A k \in 1..Len(scopes[i]) : SeqContains(scopes[j], scopes[i][k])

\* the action of u is there to be invoked when Run gets to it
Runs(u) == ~RuleNamesAll(u) /\ ~EveryPathSkipped(u) /\ ~FlagsFail(u)

InvokedByName(n) ==
    LET named == {t \in Tasks : Name(t) = n}
    IN Cardinality({t \in named : invoked[t] >= 1})

HeaderCount(n) == Cardinality({i \in 1..Len(out) : out[i].name = n})

\* some, not all, of the paths of t are named by a skip rule of t
PartlySkipped(t) ==
    /\ ~RuleNamesAll(t)
    /\ \E path \in DeclaredPaths(t) : RuleNamesPath(t, path)
    /\ \E path \in DeclaredPaths(t) : ~RuleNamesPath(t, path)

\* C27: when some but not all paths of a task are skipped (and its flags
\* parse), the header Run writes is "=== name (skipped in: paths)" with
\* exactly the skipped paths in their original order, and the action is
\* invoked once, with exactly the remaining paths.
C27_PartialSkipHeader ==
    \A t \in Tasks : (PartlySkipped(t) /\ ~FlagsFail(t)) =>
        LET Named(path) == RuleNamesPath(t, path)
            Live(path) == ~RuleNamesPath(t, path)
            header == [name |-> Name(t), note |-> "skipped in",
                       paths |-> SelectSeq(DeclaredSeq(t), Named)]
        IN /\ \A i \in 1..Len(out) : out[i].name = Name(t) => out[i] = header
           /\ invoked[t] <= 1
           /\ invoked[t] = 1 =>
                  /\ actionPaths[t] = SelectSeq(DeclaredSeq(t), Live)
                  /\ \E i \in 1..Len(out) : out[i] = header
           /\ returns[t] > 0 =>
                  /\ invoked[t] = 1
                  /\ HeaderCount(Name(t)) = 1

\* C27 witness: of the three paths of a task a rule names the last and the
\* first, and a Run of the task has returned: the header lists the two in
\* their original order and the action ran for the path in between.
C27_WitnessOrder ==
    /\ taskPaths["lint"] = <<"svc/a", "svc/b", "svc/c">>
    /\ skipRules = <<Rule("lint", <<"svc/c", "svc/a">>)>>
    /\ returns["lint"] > 0
    /\ out = <<[name |-> "lint", note |-> "skipped in", paths |-> <<"svc/a", "svc/c">>]>>
    /\ actionPaths["lint"] = <<"svc/b">>

\* C27 witness (S4): lint has the paths svc/a and svc/b, the rule
\* (lint, svc/b) is active, and a Run of lint has returned: the header lists
\* svc/b and the action ran for svc/a.
C27_Witness ==
    /\ taskPaths["lint"] = <<"svc/a", "svc/b">>
    /\ skipRules = <<Rule("lint", <<"svc/b">>)>>
    /\ returns["lint"] > 0
    /\ out = <<[name |-> "lint", note |-> "skipped in", paths |-> <<"svc/b">>]>>
    /\ actionPaths["lint"] = <<"svc/a">>

\* the flags of t are parsed and fail: Run gets as far as parsing them
ParseFails(t) == FlagsFail(t) /\ ~RuleNamesAll(t) /\ ~EveryPathSkipped(t)

\* C25: when the flags of a task fail to parse, Run returns a failure and the
\* action is not invoked; once a Run of the task has returned, the task is
\* recorded as done with the failure, and a Run that finds it recorded
\* returns that failure without attempting the task again: it writes no
\* header and goes no further than the lookup.
C25_FlagFailureRecorded ==
    /\ [](\A t \in Tasks : ParseFails(t) =>
             /\ invoked[t] = 0
             /\ Nil \notin results[t]
             /\ returns[t] > 0 =>
                    /\ done[Name(t)]
                    /\ errors[Name(t)] = "parse options: FlagUnknown")
    /\ [][\A p \in Callers :
             (/\ ParseFails(cur[p])
              /\ pc[p] = "isDone"
              /\ done[Name(cur[p])]
              /\ pc'[p] # pc[p]) =>
                 /\ pc'[p] = "idle"
                 /\ out' = out
                 /\ invoked' = invoked
                 /\ results'[cur[p]] = results[cur[p]] \cup {"parse options: FlagUnknown"}]_vars

\* C25 witness: a task whose flags fail to parse was run twice, and both
\* calls have returned.
C25_Witness ==
    \E t \in Tasks :
        /\ ParseFails(t)
        /\ returns[t] >= 2
        /\ invoked[t] = 0
        /\ done[Name(t)]

\* ------------------------------------------------------------------------
\* Claims about the CLI
\* ------------------------------------------------------------------------
SharedName == \E i, j \in 1..Len(registered) : i # j /\ registered[i] = registered[j]

\* C18: when two registered tasks share a name, the run fails before any
\* action is invoked: no task runs and the CLI does not exit with 0.
C18_DuplicateNameFails ==
    (SharedName /\ ~helpFlag) =>
        /\ ranLog = <<>>
        /\ cpc = "exit" => exitCode = 1

RegisteredNames == {registered[i] : i \in 1..Len(registered)}

UnknownArgs == {i \in 1..Len(argv) : argv[i] \notin RegisteredNames}

FirstUnknown == CHOOSE i \in UnknownArgs : \A j \in UnknownArgs : i <= j

\* C20: when a name on the command line is not a registered task, no action
\* is invoked at any point of the run, valid names before it included, and
\* the CLI ends with "unknown task: <name>" on stderr and exit code 1.
C20_UnknownTaskRunsNothing ==
    (UnknownArgs # {} /\ ~helpFlag) =>
        /\ ranLog = <<>>
        /\ conce = {}
        /\ cpc # "run"
        /\ cpc = "exit" =>
               /\ exitCode = 1
               /\ stderr = <<[msg |-> "unknown task", name |-> argv[FirstUnknown]]>>

\* C20 witness: the CLI has exited on an unknown name that came after the
\* names of registered tasks.
C20_Witness ==
    /\ UnknownArgs # {} /\ ~helpFlag
    /\ cpc = "exit"
    /\ Len(tasksToRun) >= 2
    /\ FirstUnknown = 3

\* the CLI got as far as running tasks: no -h, every name known, and a
\* default task when there is no name
Selects ==
    /\ ~helpFlag
    /\ UnknownArgs = {}
    /\ (argv # <<>> \/ defaultTask # 0)
    /\ cpc \in {"run", "exit"}

\* the tasks selected on the command line, in argv order: a name stands for
\* the last task registered under it
Selected ==
    IF argv = <<>> THEN <<defaultTask>>
    ELSE [i \in 1..Len(argv) |->
             CHOOSE k \in 1..Len(registered) :
                 /\ registered[k] = argv[i]
                 /\ \A m \in (k + 1)..Len(registered) : registered[m] # argv[i]]

\* a sequence without the repetitions of its elements
RECURSIVE Distinct(_)
Distinct(s) ==
    IF s = <<>> THEN <<>>
    ELSE LET d == Distinct(SubSeq(s, 1, Len(s) - 1))
         IN IF SeqContains(d, s[Len(s)]) THEN d ELSE Append(d, s[Len(s)])

\* C21: the CLI runs the selected tasks in argv order; no task is started
\* after a task has failed; the exit code is 0 iff every selected task has
\* run and succeeded, and 1 when a task failed, the failing task being the
\* last one started and the one reported.
C21_ArgvOrderFirstFailureStops ==
    Selects =>
        /\ \E k \in 0..Len(Selected) : ranLog = Distinct(SubSeq(Selected, 1, k))
        /\ \A i \in 1..(Len(ranLog) - 1) : cerr[ranLog[i]] = Nil
        /\ cpc = "exit" =>
               /\ exitCode \in {0, 1}
               /\ exitCode = 0 <=>
                      \A i \in 1..Len(Selected) :
                          Selected[i] \in conce /\ cerr[Selected[i]] = Nil
               /\ exitCode = 1 =>
                      /\ ranLog # <<>>
                      /\ cerr[ranLog[Len(ranLog)]] # Nil
                      /\ stderr = <<[msg |-> "task failed",
                                     name |-> registered[ranLog[Len(ranLog)]],
                                     err |-> cerr[ranLog[Len(ranLog)]]]>>

\* C21 witness: of three tasks on the command line the first ran, the
\* second ran and failed, the third was not started, and the CLI exited
\* with 1.
C21_Witness ==
    /\ Selects
    /\ cpc = "exit" /\ exitCode = 1
    /\ Len(Selected) = 3 /\ Distinct(Selected) = Selected
    /\ ranLog = SubSeq(Selected, 1, 2)
    /\ cerr[Selected[1]] = Nil /\ cerr[Selected[2]] = ActionFailed
    /\ Selected[3] \notin conce

\* C21 witness: every task on the command line ran and the CLI exited with 0.
C21_WitnessAllPass ==
    /\ Selects
    /\ cpc = "exit" /\ exitCode = 0
    /\ Len(Selected) = 3 /\ ranLog = Selected

\* the signal arrived while a selected task was still to finish
SignalBeforeCompletion == sigAt # 0 /\ sigAt <= Len(tasksToRun)

\* C22: when SIGINT or SIGTERM arrives before the selected tasks have
\* completed, the CLI ends with exit code 1, and what it reports is Cancelled
\* unless a task ended with a failure of its own.
C22_SignalEndsInCancelled ==
    (Selects /\ cpc = "exit" /\ SignalBeforeCompletion) =>
        /\ exitCode = 1
        /\ \E i \in 1..Len(stderr) : stderr[i].msg = "task failed"
        /\ (\A t \in conce : cerr[t] \in {Nil, Cancelled}) =>
               \E i \in 1..Len(stderr) : stderr[i].err = Cancelled

\* ------------------------------------------------------------------------
\* Claims about RunContext.ForEachPath
\* ------------------------------------------------------------------------
\* C23: ForEachPath checks cancellation before each path: once the context
\* is cancelled, fn is not invoked for any further path, and with a path
\* still to come ForEachPath returns the cancellation error of the context.
C23_StopsBeforeNextPath ==
    [][(fcancel /\ fret = "running") =>
           /\ fnCalls' = fnCalls
           /\ fidx <= Len(fpaths) => fret' = Cancelled]_vars

\* the same, for the ForEachPath that takes the context
C23_WithCtxStops ==
    [][(fversion = WithCtx /\ fcancel /\ fret = "running") =>
           /\ fnCalls' = fnCalls
           /\ fidx <= Len(fpaths) => fret' = Cancelled]_vars

\* ------------------------------------------------------------------------
\* Claims about commands
\* ------------------------------------------------------------------------
\* C24: when cancellation is requested while the subprocess of a command is
\* running, the subprocess is signalled to terminate (unless it has just
\* ended by itself) and the run of the command returns, whether or not the
\* subprocess would ever end by itself.
C24_CancelEndsCommand ==
    (kcancel /\ kproc = "running")
        ~> ((ksig # "none" \/ kproc = "exited") /\ kret # "running")

\* the same, for the commands built with newCommand(ctx, ...): either the
\* subprocess is signalled or it has ended by itself, and the run returns
C24_CtxCommandEnds ==
    (startedWithCtx(kversion) /\ kcancel /\ kproc = "running")
        ~> ((ksig # "none" \/ kproc = "exited") /\ kret # "running")

\* ------------------------------------------------------------------------
\* Claims about the output of concurrent children
\* ------------------------------------------------------------------------
\* the children that have lines in the parent sink, in the order of their
\* first line
SinkOrder == Distinct([i \in 1..Len(osink) |-> osink[i].child])

Contiguous ==
    \A i, k \in 1..Len(osink) : \A j \in i..k :
        osink[i].child = osink[k].child => osink[j].child = osink[i].child

InBlocks ==
    /\ Contiguous
    /\ (\A c \in Children : ofin[c]) =>
           SinkOrder = SelectSeq(oorder, LAMBDA c : owritten[c] > 0)

\* C29: the output of the children of a parallel composition is in the
\* parent sink block by block: the lines of one child are never interleaved
\* with those of a sibling, and the blocks are in completion order.
C29_OutputInBlocks == InBlocks

\* the same, for the children that write to an Output of their own; none of
\* their lines is in the parent sink before they complete
C29_BufferedInBlocks ==
    oversion = BufferedOutput =>
        /\ InBlocks
        /\ \A i \in 1..Len(osink) : ofin[osink[i].child]

\* ------------------------------------------------------------------------
\* Claims about the task export
\* ------------------------------------------------------------------------
\* the FuncDefs of the exported tree, outermost first
ExportNodes == SelectSeq(etree, LAMBDA n : n.type = "func")

\* C30: the exported list has an entry for every task of the tree, hidden
\* tasks included, in the order of the tree, each with its hidden flag.
C30_ExportHasEveryTask ==
    exported.done =>
        /\ Len(exported.tasks) = Len(ExportNodes)
        /\ \A i \in 1..Len(ExportNodes) :
               /\ exported.tasks[i].name = ExportNodes[i].name
               /\ exported.tasks[i].hidden = ExportNodes[i].hidden

ExportShown == SelectSeq(ExportNodes, LAMBDA n : ~n.hidden)

\* the same, for the tasks that are not hidden
C30_ExportHasVisibleTasks ==
    exported.done =>
        /\ Len(exported.tasks) = Len(ExportShown)
        /\ \A i \in 1..Len(ExportShown) :
               /\ exported.tasks[i].name = ExportShown[i].name
               /\ ~exported.tasks[i].hidden

\* ------------------------------------------------------------------------
\* Claims about SerialDeps and Deps
\* ------------------------------------------------------------------------
Started(s, j) == site[s][j] \in {"ready", "exec", "wait", "ret", "fin"}

Ended(s, j) == site[s][j] = "fin"

Failed(s, j) == Ended(s, j) /\ siteVal[s][j] # Nil

\* C5: SerialDeps starts child n+1 only after every earlier child has
\* returned nil; when a child fails, SerialDeps returns that child's error and
\* no later child is started.
C5_SerialOrder ==
    \A s \in Nodes : Kind(s) = "serial" =>
        /\ \A j \in Sites(s) : Started(s, j) =>
               \A i \in 1..(j - 1) :
                   site[s][i] \in {"fin", "skip"} /\ siteVal[s][i] = Nil
        /\ \A j \in Sites(s) : (once[s] = "done" /\ Failed(s, j)) =>
               /\ terr[s] = siteVal[s][j]
               /\ \A k \in (j + 1)..Len(Kids(s)) : site[s][k] = "idle"
        /\ (once[s] = "done" /\ ~\E j \in Sites(s) : Failed(s, j)) =>
               /\ terr[s] = Nil
               /\ \A j \in Sites(s) : site[s][j] \in {"fin", "skip"}

\* C5 witness: a SerialDeps call has returned the failure of a child that ran
\* after an earlier child succeeded, and a later child was never started.
C5_Witness ==
    \E s \in Nodes : \E j \in Sites(s) :
        /\ Kind(s) = "serial" /\ once[s] = "done" /\ Failed(s, j)
        /\ \E i \in 1..(j - 1) : Ended(s, i)
        /\ \E k \in (j + 1)..Len(Kids(s)) : Kids(s)[k] # NoTask /\ site[s][k] = "idle"

\* C6: when Deps has returned, with or without an error, every non-nil child
\* was started and has terminated.
C6_DepsWaitsForAll ==
    \A s \in Nodes : (Kind(s) = "parallel" /\ once[s] = "done") =>
        \A j \in Sites(s) : Kids(s)[j] # NoTask =>
            Ended(s, j) /\ once[Kids(s)[j]] = "done"

\* C6 witness: a Deps call over several children has returned a failure.
C6_Witness ==
    \E s \in Nodes :
        /\ Kind(s) = "parallel" /\ once[s] = "done" /\ terr[s] # Nil
        /\ \E j, k \in Sites(s) : j # k /\ Ended(s, j) /\ Ended(s, k)

\* C7: once a child of Deps has ended with an error, the context handed to
\* the children is cancelled, and every sibling still running its action has
\* a cancelled context.
C7_FailureCancelsSiblings ==
    \A s \in Nodes : Kind(s) = "parallel" =>
        \A j \in Sites(s) : Failed(s, j) =>
            /\ gcancel[s]
            /\ \A k \in Sites(s) : site[s][k] = "exec" => CancelledFor(Kids(s)[k])

\* C7 witness: a child has failed while a sibling is still running and Deps
\* has not returned; nothing but the group cancelled the sibling's context.
C7_Witness ==
    \E s \in Nodes : \E j, k \in Sites(s) :
        /\ Kind(s) = "parallel" /\ once[s] = "running"
        /\ Failed(s, j) /\ site[s][k] = "exec"
        /\ CancelledFor(Kids(s)[k]) /\ ~CancelledFor(s)

BothKinds(s) ==
    /\ \E j \in Sites(s) : Ended(s, j) /\ siteVal[s][j] = Cancelled
    /\ \E j \in Sites(s) : Ended(s, j) /\ siteVal[s][j] \notin {Nil, Cancelled}

\* C8 (as stated): when the children of Deps ended with a non-cancellation
\* error and with Cancelled, Deps returns the non-cancellation error.
C8_PrefersNonCancellation ==
    \A s \in Nodes : (Kind(s) = "parallel" /\ once[s] = "done" /\ BothKinds(s)) =>
        terr[s] \notin {Nil, Cancelled}

RECURSIVE FirstError(_)
FirstError(rs) ==
    IF rs = <<>> THEN Nil
    ELSE IF Head(rs) # Nil THEN Head(rs) ELSE FirstError(Tail(rs))

\* C8 (amended): Deps returns the error of the child that was first to end
\* with one, in completion order, whether that is Cancelled or not.
C8_FirstErrorWins ==
    \A s \in Nodes : (Kind(s) = "parallel" /\ once[s] = "done") =>
        terr[s] = FirstError(reports[s])

\* C8 witness: Deps has returned after children ended with both kinds of
\* error.
C8_Witness ==
    \E s \in Nodes : Kind(s) = "parallel" /\ once[s] = "done" /\ BothKinds(s)

\* SerialDeps is between two children with its context cancelled.
CancelledBetweenChildren(s) ==
    /\ Kind(s) = "serial" /\ once[s] = "running" /\ ~InChild(s)
    /\ CancelledFor(s)
    /\ \E j \in Sites(s) : Ended(s, j)
    /\ ~\E j \in Sites(s) : Failed(s, j)
    /\ \E j \in Sites(s) : site[s][j] = "idle" /\ Kids(s)[j] # NoTask

\* C9: if the context is cancelled after a child of SerialDeps has finished
\* and before the next one starts, SerialDeps does not start the next child
\* and returns Cancelled.
C9_SerialStopsOnCancel ==
    [][\A s \in Nodes : CancelledBetweenChildren(s) =>
           /\ \A j \in Sites(s) : site[s][j] = "idle" => site'[s][j] \in {"idle", "skip"}
           /\ once'[s] = "done" => terr'[s] = Cancelled]_vars

\* ------------------------------------------------------------------------
\* Claims about the collect phase
\* ------------------------------------------------------------------------
\* C10: a traversal in collect mode executes no body: no plain function
\* given to Func, no command (nor its argument function) and no Do body.
C10_CollectRunsNoBody == mode = modeCollect => executed = <<>>

\* both traversals of the tree, collect and then execute, have returned
BothTraversed == pass = 2 /\ cret # "running"

Recorded == {plan[i].name : i \in 1..Len(plan)}

Visited == {visited[i] : i \in 1..Len(visited)}

TreeNames == {ctree[i].name : i \in {k \in 1..Len(ctree) : ctree[k].type = "func"}}

FuncNodes == SelectSeq(ctree, LAMBDA n : n.type = "func")

\* C26: when the body of a task starts in execute mode, the header of every
\* task around it, hidden or not, has been written, once each and in the
\* order the tasks were entered.
C26_HeaderBeforeEveryBody ==
    [][(mode = modeExecute /\ executed' # executed) =>
           headers = [i \in 1..Len(FuncNodes) |-> FuncNodes[i].name]]_vars

\* the same, for the tasks that are not hidden
ShownNodes == SelectSeq(FuncNodes, LAMBDA n : ~n.hidden)

C26_HeaderBeforeVisibleBody ==
    [][(mode = modeExecute /\ executed' # executed) =>
           headers = [i \in 1..Len(ShownNodes) |-> ShownNodes[i].name]]_vars

\* C28: a FuncDef that has run in an execution context and is run again in
\* the same context does not execute its body again.
C28_BodyRunsOnce ==
    [][(pass = 3 /\ ctree[1].type = "func") => executed' = executed]_vars

\* C12: in collect mode a RunWith command returns nil without calling its
\* argument function and without starting the command; the argument function
\* is called in execute mode only, in the step that runs the command.
C12_ThunkOnlyInExecute ==
    [][/\ (mode = modeCollect /\ cret = "running" /\ ctree[cpos].type = "cmdWith")
            => (cret' = Nil /\ executed' = executed)
       /\ (Len(executed') > Len(executed) /\ executed'[Len(executed) + 1] = "argsFn")
            => /\ mode = modeExecute
               /\ ctree[cpos].type = "cmdWith"
               /\ executed' = executed \o <<"argsFn", "cmd">>]_vars

\* C12 witness: a RunWith command was traversed in collect mode and then run
\* in execute mode, where its argument function was called.
C12_Witness ==
    /\ BothTraversed
    /\ ctree[Len(ctree)].type = "cmdWith"
    /\ cpos = Len(ctree)
    /\ executed = <<"argsFn", "cmd">>

\* ------------------------------------------------------------------------
\* Claims about the JSON of the export
\* ------------------------------------------------------------------------
\* two TaskInfo records equal in name, usage, paths and hidden; the paths
\* are compared as lists, a nil slice and an empty one both being empty
SameTaskInfo(a, b) ==
    /\ a.Name = b.Name
    /\ a.Usage = b.Usage
    /\ a.Paths.elems = b.Paths.elems
    /\ a.Hidden = b.Hidden

C31_WitnessNil ==
    /\ jparsed.done
    /\ Len(jtasks.elems) = 1
    /\ jtasks.elems[1].Paths = MakeSlice(<<>>)
    /\ jparsed.tasks.elems[1].Paths = NilSlice

\* ------------------------------------------------------------------------
\* Claims about the task definitions
\* ------------------------------------------------------------------------
\* C32: task definitions are immutable: WithOptions, AsHidden and AsBuiltin
\* (and FuncDef.With, Hidden, WithName, WithUsage) return a new definition
\* and leave every field of the receiver unchanged.
C32_MethodsCopy ==
    [][/\ \A d \in 1..Len(heap) : heap'[d] = heap[d]
       /\ ~panicked' =>
              /\ lastNew' = Len(heap) + 1
              /\ lastNew' # lastRecv'
              /\ Len(heap') = Len(heap) + 1]_vars

\* a hidden definition derived from a definition that is not hidden, and a
\* renamed one derived from a definition that keeps its name
C32_Witness ==
    /\ \E d \in TaskDefs : d > 2 /\ heap[d].hidden /\ ~heap[1].hidden
    /\ lastRecv = 2
    /\ lastNew = 4
    /\ heap[4].name = "integration-test"
    /\ heap[2].name = "fmt"

\* ------------------------------------------------------------------------
\* Claims about the help of the CLI
\* ------------------------------------------------------------------------
\* the registered tasks that are not hidden
ShownTasks == {i \in 1..Len(registered) : i \notin hiddenTasks}

\* C33: with -h the CLI returns exit code 0 without invoking any task
\* action, and the task table it prints lists exactly the non-hidden tasks
\* in ascending name order, with the default task annotated (default).
C33_HelpListsVisibleSorted ==
    (helpFlag /\ cpc = "exit") =>
        /\ exitCode = 0
        /\ helpShown
        /\ ranLog = <<>>
        /\ conce = {}
        /\ Len(helpTable) = Cardinality(ShownTasks)
        /\ {helpTable[i].task : i \in 1..Len(helpTable)} = ShownTasks
        /\ \A i \in 1..Len(helpTable) : helpTable[i].name = registered[helpTable[i].task]
        /\ \A i \in 1..(Len(helpTable) - 1) :
               NameRank[helpTable[i].name] <= NameRank[helpTable[i + 1].name]
        /\ \A i \in 1..Len(helpTable) :
               /\ (defaultTask # 0 /\ helpTable[i].task = defaultTask)
                      => helpTable[i].defaultMark
               /\ helpTable[i].defaultMark
                      => (defaultTask # 0 /\ helpTable[i].name = registered[defaultTask])

\* the help of three registered tasks, one of them hidden, with tasks named
\* on the command line: the table has the two others, fmt before lint, and
\* lint, the default task, is marked
C33_Witness ==
    /\ helpFlag
    /\ cpc = "exit"
    /\ registered = <<"lint", "fmt", "test">>
    /\ hiddenTasks = {3}
    /\ defaultTask = 1
    /\ Len(argv) = 2
    /\ Len(helpTable) = 2
    /\ helpTable[1].name = "fmt" /\ ~helpTable[1].defaultMark
    /\ helpTable[2].name = "lint" /\ helpTable[2].defaultMark

\* ------------------------------------------------------------------------
\* Claims about compositions without children
\* ------------------------------------------------------------------------
\* a composition with no children, or with nil children only
Childless(s) ==
    /\ Kind(s) \in {"serial", "parallel"}
    /\ \A j \in Sites(s) : Kids(s)[j] = NoTask

\* C34: a Serial or Parallel composition with no children (or only nil
\* children) returns ok without invoking any action.
C34_ChildlessReturnsOk ==
    \A s \in Nodes :
        Childless(s) =>
            /\ once[s] = "done" => terr[s] = Nil
            /\ \A j \in Sites(s) : site[s][j] \in {"idle", "skip"}
            /\ \A t \in Nodes \ {s} : once[t] # "new" => execSite[t][1] # s

\* SerialDeps and Deps called with no task, with one nil task and with two
\* nil tasks have all returned nil, and the task after them has run
C34_Witness ==
    /\ Childless("a") /\ Len(Kids("a")) = 0 /\ Kind("a") = "parallel"
    /\ Childless("b") /\ Len(Kids("b")) = 1 /\ Kind("b") = "serial"
    /\ Childless("c") /\ Len(Kids("c")) = 2 /\ Kind("c") = "parallel"
    /\ \A s \in {"a", "b", "c"} : once[s] = "done" /\ terr[s] = Nil
    /\ once["d"] = "done"
    /\ once[Main] = "done"

\* ------------------------------------------------------------------------
\* Claims about the "all" task
\* ------------------------------------------------------------------------
HasStarted(t) == astate[t] # "new"
Succeeded(t) == astate[t] = "ok"
EarlierStagesOk ==
    /\ Succeeded(<<Generate>>)
    /\ \A j \in 1..Len(orchestrators) : Succeeded(orchestrators[j])
    /\ \A j \in 1..Len(customTasks) : Succeeded(customTasks[j])

\* C35: the all task runs generate first, then each task-group orchestrator
\* serially, then the custom tasks in parallel, and git-diff last: the
\* action of git-diff starts only after all of those have terminated
\* successfully, and it is not run when SkipGitDiff is set or when any
\* earlier stage failed.
C35_AllStagesInOrder ==
    /\ \A i \in 1..Len(orchestrators) :
           HasStarted(orchestrators[i]) =>
               /\ Succeeded(<<Generate>>)
               /\ \A j \in 1..(i - 1) : Succeeded(orchestrators[j])
    /\ \A i \in 1..Len(customTasks) :
           HasStarted(customTasks[i]) =>
               /\ Succeeded(<<Generate>>)
               /\ \A j \in 1..Len(orchestrators) : Succeeded(orchestrators[j])
    /\ HasStarted(<<GitDiff>>) => (~skipGitDiff /\ EarlierStagesOk)
    /\ (aret = Nil /\ ~skipGitDiff) => Succeeded(<<GitDiff>>)

\* git-diff runs after generate, two orchestrators and two custom tasks
C35_Witness ==
    /\ astate[<<GitDiff>>] = "running"
    /\ Len(orchestrators) = 2
    /\ Len(customTasks) = 2
    /\ EarlierStagesOk

\* two custom tasks run at the same time
C35_WitnessParallel ==
    /\ Len(customTasks) = 2
    /\ \A i \in 1..2 : astate[customTasks[i]] = "running"

\* the action has returned a failure of a custom task and git-diff was
\* left out, and it has returned nil with SkipGitDiff set
C35_WitnessNotRun ==
    /\ apc = "done"
    /\ ~HasStarted(<<GitDiff>>)
    /\ \/ aret = ActionFailed /\ ~skipGitDiff /\ Len(customTasks) = 2
             /\ astate[customTasks[2]] = "failed" /\ astate[customTasks[1]] = "ok"
       \/ aret = Nil /\ skipGitDiff /\ EarlierStagesOk /\ Len(customTasks) = 2

\* ------------------------------------------------------------------------
\* Claims about NewTaskGroup
\* ------------------------------------------------------------------------
\* the given tasks in declared order, without the nil ones and without the
\* later occurrences of a task given more than once
RECURSIVE DeclaredOrder(_, _)
DeclaredOrder(tasks, had) ==
    IF tasks = <<>> THEN <<>>
    ELSE IF Head(tasks) = NilTask \/ Head(tasks) \in had
    THEN DeclaredOrder(Tail(tasks), had)
    ELSE <<Head(tasks)>> \o DeclaredOrder(Tail(tasks), had \cup {Head(tasks)})

\* the tasks of the group started by its orchestrator so far
StartedByOrchestrator == Tail(glog)

\* C36: NewTaskGroup(name, tasks...) yields a group whose Tasks() are the
\* given tasks plus exactly one hidden orchestrator task named <name>-all,
\* whose action runs the given tasks serially in declared order and stops at
\* the first failure.
C36_GroupAndOrchestrator ==
    group.made =>
        /\ Len(GroupTasksOf) = Len(given) + 1
        /\ \A i \in 1..Len(given) : GroupTasksOf[i] = given[i]
        /\ LET named == {i \in 1..Len(GroupTasksOf) :
                            /\ GroupTasksOf[i] # NilTask
                            /\ Deref(GroupTasksOf[i]).Name = <<gname, "-all">>}
           IN /\ named = {Len(given) + 1}
              /\ \A i \in named : Deref(GroupTasksOf[i]).Hidden
        /\ glog # <<>> =>
               /\ Head(glog) = Orchestrator
               /\ Len(StartedByOrchestrator) <= Len(DeclaredOrder(given, {}))
               /\ StartedByOrchestrator =
                      SubSeq(DeclaredOrder(given, {}), 1, Len(StartedByOrchestrator))
               /\ \A k \in 1..Len(StartedByOrchestrator) :
                      LET t == StartedByOrchestrator[k]
                      IN /\ k < Len(StartedByOrchestrator) => gstate[t] = "ok"
                         /\ gstate[t] = "failed" => (gpc = "done" /\ gret = ActionFailed)
               /\ gret = Nil =>
                      \A i \in 1..Len(given) :
                          given[i] # NilTask => gstate[given[i]] = "ok"

\* a group of three tasks made by an append into the caller's array, whose
\* orchestrator has started the first two in declared order and stopped at
\* the failure of the second
C36_Witness ==
    /\ group.made
    /\ group.shared
    /\ given = <<2, 1, 3>>
    /\ glog = <<Orchestrator, 2, 1>>
    /\ gstate[1] = "failed"
    /\ gstate[3] = "new"
    /\ gret = ActionFailed

\* the orchestrator of a group with a nil task and a task given twice has
\* returned nil
C36_WitnessAllRun ==
    /\ group.made
    /\ given = <<1, NilTask, 1>>
    /\ glog = <<Orchestrator, 1>>
    /\ gret = Nil

\* ------------------------------------------------------------------------
\* Claims about termination
\* ------------------------------------------------------------------------
\* no call of task.run, Deps or SerialDeps is in progress
AllReturned ==
    /\ \A s \in Nodes : once[s] # "running"
    /\ \A s \in Nodes : \A j \in Sites(s) : site[s][j] \in {"idle", "skip", "fin"}

\* C37: if every action terminates and no action calls, directly or
\* transitively, Run, Deps or SerialDeps on its own task, then every Run,
\* Deps and SerialDeps call terminates: no caller waits forever for another
\* task's completion, under any interleaving of parallel branches that share
\* dependencies.
C37_EveryCallTerminates == <>[](once[Main] = "done" /\ AllReturned)

\* two parallel branches share a dependency, and one of them is blocked in
\* once.Do while the other one runs it
C37_Witness ==
    /\ Kind(Main) = "parallel"
    /\ \E s \in {"a", "b"} : \E j \in Sites(s) :
           /\ site[s][j] = "wait"
           /\ Kids(s)[j] = "c"
           /\ once["c"] = "running"
           /\ execSite["c"][1] \in {"a", "b"} \ {s}

\* ------------------------------------------------------------------------
\* Claims about the dedup registry under concurrent calls
\* ------------------------------------------------------------------------
\* C38: under any interleaving of Task.Run calls in one execution, the dedup
\* registry is monotonic: isDone(name) returns (false, nil) until the first
\* markDone(name) completes, a name once marked done is never unmarked, and
\* a recorded error is never replaced by a later markDone of that name.
C38_RegistryMonotonic ==
    /\ [](\A n \in Names : ~done[n] => (~isDone(done, n) /\ isDoneErr(done, errors, n) = Nil))
    /\ [][\A n \in Names :
              /\ done[n] => done'[n]
              /\ (done[n] /\ errors[n] # Nil) => errors'[n] = errors[n]]_vars

\* the part of it that holds: isDone returns (false, nil) until a markDone
\* has completed, a name marked done stays marked, and a recorded error is
\* never replaced by nil
C38_DoneIsKept ==
    /\ [](\A n \in Names : ~done[n] => (~isDone(done, n) /\ isDoneErr(done, errors, n) = Nil))
    /\ [][\A n \in Names :
              /\ done[n] => done'[n]
              /\ (done[n] /\ errors[n] # Nil) => errors'[n] # Nil]_vars

\* ------------------------------------------------------------------------
\* Claims about the order and the errors of ForEachPath
\* ------------------------------------------------------------------------
\* C39: ForEachPath invokes fn on the paths in list order and stops at the
\* first fn error, returning that error without invoking fn on any later
\* path; with an empty path list it returns nil without invoking fn.
C39_InOrderUntilFirstError ==
    /\ Len(fnRets) = Len(fnCalls)
    /\ Len(fnCalls) <= Len(fpaths)
    /\ fnCalls = SubSeq(fpaths, 1, Len(fnCalls))
    /\ \A k \in 1..Len(fnRets) :
           fnRets[k] # Nil => (k = Len(fnRets) /\ fret = fnRets[k])
    /\ fret = Nil => fnCalls = fpaths
    /\ (fpaths = <<>> /\ fret # "running") => (fret = Nil /\ fnCalls = <<>>)

\* fn has failed on the second of three paths: its error is returned and the
\* third path was not visited
C39_Witness ==
    /\ fversion = WithCtx
    /\ Len(fpaths) = 3
    /\ fnCalls = SubSeq(fpaths, 1, 2)
    /\ fnRets = <<Nil, ActionFailed>>
    /\ fret = ActionFailed

\* ForEachPath has returned nil for an empty list of paths, the context
\* cancelled or not
C39_WitnessEmpty ==
    /\ fpaths = <<>>
    /\ fret = Nil
    /\ fnCalls = <<>>
    /\ fcancel

====
